---- MODULE Spec2Model ----
(***************************************************************************)
(* Data-access core of the quality module: the MySQL connection wrapper    *)
(* (app/core/db.py: MySQLDb, DbManager), the session handling of the       *)
(* repository (app/quality/repo/QualityRepository.py), and the queries,    *)
(* the parameter binding and the projection of the quality module          *)
(* (app/quality/sql, app/quality/repo, app/quality/service).               *)
(*                                                                         *)
(* SpecQuality runs the four operations of QualityService, each as one     *)
(* step from the caller's input to the projected result, over a small      *)
(* staging database whose documents and lines arrive from outside; the     *)
(* caller may repeat a search or ask for its next page.  SpecService runs  *)
(* the service code on the rows of any repository (QualityService takes    *)
(* its repository as an argument).                                         *)
(*                                                                         *)
(* Two specifications share the wrapper's code:                            *)
(*   Spec      one client drives connect / close / execute / execute_query *)
(*             on its own wrapper, in any order;                           *)
(*   SpecRepo  two concurrent requests run repository calls, through the   *)
(*             injected DbManager or through a new one per call.           *)
(* The MySQL driver is the environment: a statement, a fetch or a commit   *)
(* on a live connection succeeds or raises; every driver call on a         *)
(* connection that is gone raises, the rollback included.  Under Spec a    *)
(* connection may be lost at any time (the server then discards its        *)
(* uncommitted work); under SpecRepo a connection goes away only by        *)
(* close(), which is what the concurrent requests do to each other.        *)
(***************************************************************************)
EXTENDS Integers, Sequences, FiniteSets, TLC

\* ------------------------------------------------------------------ bounds
\* physical connections the driver hands out in one behaviour
MaxConns == 3
\* write calls (INSERT/UPDATE/DELETE/SCRIPT) in one behaviour
MaxWrites == 2
\* statements in one script
MaxScript == 2
\* repository calls of one request thread in one behaviour
MaxRepoCalls == 1

\* ------------------------------------------------------------- vocabulary
\* MySQLDb._conn = None
NoConn == 0
ConnIds == 1..MaxConns

\* class QueryType
QueryTypes == {"SELECT", "GET", "INSERT", "UPDATE", "DELETE", "SCRIPT"}
\* query_type in (QueryType.SELECT, QueryType.GET)
IsRead(qt) == qt \in {"SELECT", "GET"}

Client == "client"
Callers == {"r1", "r2"}
Procs == {Client} \cup Callers

\* the client's wrapper, the wrapper of the injected DbManager, and the
\* wrapper a repository call builds for itself
ClientWrapper == "D"
InjectedWrapper == "W0"
FreshWrapper(r) == IF r = "r1" THEN "F1" ELSE "F2"
Wrappers == {ClientWrapper, InjectedWrapper} \cup {FreshWrapper(r) : r \in Callers}

\* result sets the database may produce for a read
ResultSets == {<< >>, <<"row1", "row2">>}

\* changes made by statement i of write call n
Changes == (1..(MaxWrites + 1)) \X (1..(MaxScript + 1))

VARIABLES
    conn,       \* [Wrappers -> ConnIds \cup {NoConn}]: MySQLDb._conn
    alive,      \* physical connections that are open: c.is_connected()
    nextConn,   \* the next physical connection the driver opens
    inTx,       \* connections with an open transaction (autocommit=False)
    pending,    \* [ConnIds -> uncommitted changes of the connection]
    durable,    \* committed changes
    closedBy,   \* connections closed by MySQLDb.close (not lost)
    failed,     \* write calls that raised
    nWrites,    \* write calls started
    pc,         \* [Procs -> position in the code]
    cur,        \* [Procs -> frame of the wrapper call in progress]
    log,        \* [Procs -> driver calls made by the current/last execute]
    out,        \* [Procs -> outcome of the last wrapper call]
    calls,      \* [Callers -> repository calls started]
    sess,       \* [Callers -> the repository call in progress]
    rout,       \* [Callers -> outcome of the last repository call]
    doctes,     \* stored document headers (table doctes)
    docrig,     \* stored document lines (table docrig)
    qres,       \* the last operation of the quality service and its result
    qprev       \* the search the caller made before it, when it asked again

dbvars == <<conn, alive, nextConn, inTx, pending, durable, closedBy>>
vars == <<conn, alive, nextConn, inTx, pending, durable, closedBy, failed,
          nWrites, pc, cur, log, out, calls, sess, rout, doctes, docrig,
          qres, qprev>>
qvars == <<doctes, docrig, qres, qprev>>

\* Variant of Connected: the test `self._conn is not None` alone, without
\* is_connected().
ConnectedNoneOnly(w) == conn[w] # NoConn

\* self._conn is not None and self._conn.is_connected()
Connected(w) == conn[w] # NoConn /\ conn[w] \in alive

NoFrame ==
    [op |-> "none", w |-> ClientWrapper, ret |-> "idle", qt |-> "GET",
     fetchall |-> TRUE, len |-> 0, idx |-> 0, n |-> 0, cconn |-> NoConn,
     cursor |-> "none", exc |-> "none", first |-> "none", rows |-> << >>,
     c0 |-> NoConn, live0 |-> FALSE, n0 |-> 0]

NoOut ==
    [op |-> "none", w |-> ClientWrapper, qt |-> "GET", fetchall |-> TRUE,
     len |-> 0, n |-> 0, status |-> "none", error |-> "none",
     first |-> "none", rows |-> << >>, dbrows |-> << >>, cursor |-> "none",
     log |-> << >>, c0 |-> NoConn, c1 |-> NoConn, live0 |-> FALSE,
     live1 |-> FALSE, tx1 |-> FALSE, n0 |-> 0, n1 |-> 0]

NoSess ==
    [active |-> FALSE, injected |-> FALSE, w |-> InjectedWrapper,
     entered |-> FALSE, c |-> NoConn, blockErr |-> "none", rows |-> << >>,
     trace |-> << >>, exitLive |-> FALSE]

NoROut ==
    [status |-> "none", error |-> "none", injected |-> FALSE,
     entered |-> FALSE, blockErr |-> "none", rows |-> << >>,
     trace |-> << >>, exitLive |-> FALSE]

\* no operation of the quality service has run yet
NoQRes ==
    [op |-> "none", raw |-> << >>, vals |-> << >>, params |-> << >>,
     trace |-> << >>, status |-> "none", error |-> "none", rows |-> << >>,
     result |-> << >>]

Init ==
    /\ conn = [w \in Wrappers |-> NoConn]
    /\ alive = {}
    /\ nextConn = 1
    /\ inTx = {}
    /\ pending = [c \in ConnIds |-> {}]
    /\ durable = {}
    /\ closedBy = {}
    /\ failed = {}
    /\ nWrites = 0
    /\ pc = [p \in Procs |-> "idle"]
    /\ cur = [p \in Procs |-> NoFrame]
    /\ log = [p \in Procs |-> << >>]
    /\ out = [p \in Procs |-> NoOut]
    /\ calls = [r \in Callers |-> 0]
    /\ sess = [r \in Callers |-> NoSess]
    /\ rout = [r \in Callers |-> NoROut]
    /\ doctes = {}
    /\ docrig = {}
    /\ qres = NoQRes
    /\ qprev = NoQRes

\* ------------------------------------------------------------ the driver
\* The connection is lost (server timeout, network): it is no longer
\* connected and the server discards its uncommitted work.
ConnLost(c) ==
    /\ c \in alive
    /\ alive' = alive \ {c}
    /\ pending' = [pending EXCEPT ![c] = {}]
    /\ inTx' = inTx \ {c}
    /\ UNCHANGED <<conn, nextConn, durable, closedBy, failed, nWrites, pc, cur,
                   log, out, calls, sess, rout>>
    /\ UNCHANGED qvars

\* --------------------------------------------------------- wrapper calls
\* A call of a MySQLDb method begins: `ret` is where its caller continues.
Frame(op, w, ret, qt, fetchall, len, n) ==
    [NoFrame EXCEPT !.op = op, !.w = w, !.ret = ret, !.qt = qt,
                    !.fetchall = fetchall, !.len = len, !.n = n,
                    !.c0 = conn[w], !.n0 = nextConn]

\* Variant of ExecuteQueryReturn: the adapter without lines 184-185; the
\* fetch-all flag is ignored.
ExecuteQueryReturnAll(qt, fetchall, rows) ==
    IF IsRead(qt) THEN rows ELSE << >>

\* MySQLDb.execute_query: what the adapter returns for the rows that
\* execute returned.
ExecuteQueryReturn(qt, fetchall, rows) ==
    IF IsRead(qt)
    THEN IF ~fetchall /\ Len(rows) > 0 THEN <<rows[1]>> ELSE rows
    ELSE << >>

\* The wrapper call of p ends, returning (status "ok") or raising.  The
\* outcome keeps what the call saw and did and the wrapper's state at that
\* moment; f is the call's frame as its last line leaves it.
Finish(p, f, status, error) ==
    /\ out' = [out EXCEPT ![p] =
          [op |-> f.op, w |-> f.w, qt |-> f.qt, fetchall |-> f.fetchall,
           len |-> f.len, n |-> f.n, status |-> status, error |-> error,
           first |-> f.first,
           rows |-> IF status # "ok" THEN << >>
                    ELSE IF f.op = "execute_query"
                         THEN ExecuteQueryReturn(f.qt, f.fetchall, f.rows)
                         ELSE f.rows,
           dbrows |-> f.rows, cursor |-> f.cursor, log |-> log'[p],
           c0 |-> f.c0, c1 |-> conn'[f.w], live0 |-> f.live0,
           live1 |-> (conn'[f.w] # NoConn /\ conn'[f.w] \in alive'),
           tx1 |-> (conn'[f.w] \in inTx'),
           n0 |-> f.n0, n1 |-> nextConn']]
    /\ failed' = IF status = "raised" /\ f.n > 0 THEN failed \cup {f.n}
                 ELSE failed
    /\ pc' = [pc EXCEPT ![p] = f.ret]
    /\ cur' = [cur EXCEPT ![p] = NoFrame]

\* Variant of ConnectCheck: connect() without the early return of lines
\* 58-59; it opens a connection whatever _conn holds.
ConnectCheckAlwaysOpens(p) ==
    /\ pc[p] = "connect"
    /\ UNCHANGED <<dbvars, nWrites, log, calls, sess, rout>>
    /\ pc' = [pc EXCEPT ![p] = "connect_open"]
    /\ cur' = [cur EXCEPT ![p].live0 = Connected(cur[p].w)]
    /\ UNCHANGED <<out, failed>>
    /\ UNCHANGED qvars

\* MySQLDb.connect, lines 58-59: already connected, nothing to do.
ConnectCheck(p) ==
    /\ pc[p] = "connect"
    /\ UNCHANGED <<dbvars, nWrites, log, calls, sess, rout>>
    /\ IF Connected(cur[p].w)
       THEN Finish(p, [cur[p] EXCEPT !.live0 = TRUE], "ok", "none")
       ELSE /\ pc' = [pc EXCEPT ![p] = "connect_open"]
            /\ UNCHANGED <<cur, out, failed>>
    /\ UNCHANGED qvars

\* MySQLDb.connect, lines 61-94: mysql.connector.connect opens a new
\* physical connection, or raises and leaves _conn as it was.
ConnectOpen(p) ==
    /\ pc[p] = "connect_open"
    /\ \E ok \in BOOLEAN :
          IF ok /\ nextConn <= MaxConns
          THEN /\ conn' = [conn EXCEPT ![cur[p].w] = nextConn]
               /\ alive' = alive \cup {nextConn}
               /\ nextConn' = nextConn + 1
               /\ UNCHANGED <<inTx, pending, durable, closedBy, nWrites, log,
                              calls, sess, rout>>
               /\ Finish(p, cur[p], "ok", "none")
          ELSE /\ UNCHANGED <<dbvars, nWrites, log, calls, sess, rout>>
               /\ Finish(p, cur[p], "raised", "ConnectError")
    /\ UNCHANGED qvars

\* MySQLDb.close, lines 97-98: a live connection is closed; the server
\* discards its uncommitted work.
CloseCheck(p) ==
    /\ pc[p] = "close"
    /\ IF Connected(cur[p].w)
       THEN /\ alive' = alive \ {conn[cur[p].w]}
            /\ pending' = [pending EXCEPT ![conn[cur[p].w]] = {}]
            /\ inTx' = inTx \ {conn[cur[p].w]}
            /\ closedBy' = closedBy \cup {conn[cur[p].w]}
       ELSE UNCHANGED <<alive, pending, inTx, closedBy>>
    /\ pc' = [pc EXCEPT ![p] = "close_clear"]
    /\ UNCHANGED <<conn, nextConn, durable, failed, nWrites, cur, log, out, calls,
                   sess, rout>>
    /\ UNCHANGED qvars

\* Variant of CloseClear: close() without line 99; the wrapper keeps the
\* closed connection object.
CloseClearKeeps(p) ==
    /\ pc[p] = "close_clear"
    /\ UNCHANGED <<dbvars, nWrites, log, calls, sess, rout>>
    /\ Finish(p, cur[p], "ok", "none")
    /\ UNCHANGED qvars

\* MySQLDb.close, line 99.
CloseClear(p) ==
    /\ pc[p] = "close_clear"
    /\ conn' = [conn EXCEPT ![cur[p].w] = NoConn]
    /\ UNCHANGED <<alive, nextConn, inTx, pending, durable, closedBy, nWrites,
                   log, calls, sess, rout>>
    /\ Finish(p, cur[p], "ok", "none")
    /\ UNCHANGED qvars

\* MySQLDb.execute, lines 116-120: the connected check.
ExecCheck(p) ==
    /\ pc[p] = "exec"
    /\ UNCHANGED <<dbvars, nWrites, log, calls, sess, rout>>
    /\ IF ~Connected(cur[p].w)
       THEN Finish(p, cur[p], "raised", "NotConnected")
       ELSE /\ pc' = [pc EXCEPT ![p] = "exec_cursor"]
            /\ cur' = [cur EXCEPT ![p].live0 = TRUE]
            /\ UNCHANGED <<out, failed>>
    /\ UNCHANGED qvars

\* MySQLDb.execute, line 122: self._conn.cursor(), outside the try.  It
\* raises when the connection went away after the check.
ExecCursor(p) ==
    /\ pc[p] = "exec_cursor"
    /\ UNCHANGED <<dbvars, nWrites, calls, sess, rout>>
    /\ IF Connected(cur[p].w)
       THEN /\ cur' = [cur EXCEPT ![p].cconn = conn[cur[p].w],
                                  ![p].cursor = "open"]
            /\ log' = [log EXCEPT ![p] = Append(@, "cursor")]
            /\ pc' = [pc EXCEPT ![p] = "exec_stmt"]
            /\ UNCHANGED <<out, failed>>
       ELSE /\ UNCHANGED log
            /\ Finish(p, cur[p], "raised", "CursorError")
    /\ UNCHANGED qvars

\* Variant of AfterStatements: a write returns without the commit.
AfterStatementsNoCommit(qt) ==
    IF IsRead(qt) THEN "exec_fetch" ELSE "exec_finally"

\* Where execute goes after the statement(s) ran: lines 129, 136, 140.
AfterStatements(qt) ==
    IF IsRead(qt) THEN "exec_fetch" ELSE "exec_commit"

\* Variant of ExecStmt: the script is not iterated; only its first
\* statement runs before the commit.
ExecStmtFirstOnly(p) ==
    /\ pc[p] = "exec_stmt"
    /\ UNCHANGED <<conn, alive, nextConn, durable, closedBy, failed, nWrites,
                   out, calls, sess, rout>>
    /\ \E ok \in BOOLEAN :
          IF ok /\ cur[p].cconn \in alive
          THEN /\ inTx' = inTx \cup {cur[p].cconn}
               /\ pending' =
                     IF IsRead(cur[p].qt) THEN pending
                     ELSE [pending EXCEPT ![cur[p].cconn] =
                              @ \cup {<<cur[p].n, cur[p].idx + 1>>}]
               /\ log' = [log EXCEPT ![p] = Append(@, "stmt")]
               /\ cur' = [cur EXCEPT ![p].idx = @ + 1]
               /\ pc' = [pc EXCEPT ![p] = AfterStatements(cur[p].qt)]
          ELSE /\ UNCHANGED <<inTx, pending>>
               /\ log' = [log EXCEPT ![p] = Append(@, "stmt!")]
               /\ cur' = [cur EXCEPT ![p].exc = "StmtError",
                                     ![p].first = "StmtError"]
               /\ pc' = [pc EXCEPT ![p] = "exec_except"]
    /\ UNCHANGED qvars

\* MySQLDb.execute, lines 127-128 (one iteration of the script) and 133:
\* cursor.execute runs the next statement on the cursor's connection.
ExecStmt(p) ==
    /\ pc[p] = "exec_stmt"
    /\ UNCHANGED <<conn, alive, nextConn, durable, closedBy, failed, nWrites, out,
                   calls, sess, rout>>
    /\ \E ok \in BOOLEAN :
          IF ok /\ cur[p].cconn \in alive
          THEN /\ inTx' = inTx \cup {cur[p].cconn}
               /\ pending' =
                     IF IsRead(cur[p].qt) THEN pending
                     ELSE [pending EXCEPT ![cur[p].cconn] =
                              @ \cup {<<cur[p].n, cur[p].idx + 1>>}]
               /\ log' = [log EXCEPT ![p] = Append(@, "stmt")]
               /\ cur' = [cur EXCEPT ![p].idx = @ + 1]
               /\ pc' = [pc EXCEPT ![p] =
                            IF cur[p].idx + 1 < cur[p].len THEN "exec_stmt"
                            ELSE AfterStatements(cur[p].qt)]
          ELSE /\ UNCHANGED <<inTx, pending>>
               /\ log' = [log EXCEPT ![p] = Append(@, "stmt!")]
               /\ cur' = [cur EXCEPT ![p].exc = "StmtError",
                                     ![p].first = "StmtError"]
               /\ pc' = [pc EXCEPT ![p] = "exec_except"]
    /\ UNCHANGED qvars

\* MySQLDb.execute, lines 136-137: cursor.fetchall().
ExecFetch(p) ==
    /\ pc[p] = "exec_fetch"
    /\ UNCHANGED <<dbvars, failed, nWrites, out, calls, sess, rout>>
    /\ \E ok \in BOOLEAN :
          IF ok /\ cur[p].cconn \in alive
          THEN /\ \E rs \in ResultSets : cur' = [cur EXCEPT ![p].rows = rs]
               /\ log' = [log EXCEPT ![p] = Append(@, "fetch")]
               /\ pc' = [pc EXCEPT ![p] = "exec_finally"]
          ELSE /\ log' = [log EXCEPT ![p] = Append(@, "fetch!")]
               /\ cur' = [cur EXCEPT ![p].exc = "FetchError",
                                     ![p].first = "FetchError"]
               /\ pc' = [pc EXCEPT ![p] = "exec_except"]
    /\ UNCHANGED qvars

\* MySQLDb.execute, lines 129 and 140: self._conn.commit().
ExecCommit(p) ==
    /\ pc[p] = "exec_commit"
    /\ UNCHANGED <<conn, alive, nextConn, closedBy, failed, nWrites, out, calls, sess, rout>>
    /\ \E ok \in BOOLEAN :
          IF ok /\ Connected(cur[p].w)
          THEN /\ durable' = durable \cup pending[conn[cur[p].w]]
               /\ pending' = [pending EXCEPT ![conn[cur[p].w]] = {}]
               /\ inTx' = inTx \ {conn[cur[p].w]}
               /\ log' = [log EXCEPT ![p] = Append(@, "commit")]
               /\ pc' = [pc EXCEPT ![p] = "exec_finally"]
               /\ UNCHANGED cur
          ELSE /\ UNCHANGED <<durable, pending, inTx>>
               /\ log' = [log EXCEPT ![p] = Append(@, "commit!")]
               /\ cur' = [cur EXCEPT ![p].exc = "CommitError",
                                     ![p].first = "CommitError"]
               /\ pc' = [pc EXCEPT ![p] = "exec_except"]
    /\ UNCHANGED qvars

\* Variant of ExecExcept: the handler re-raises without the rollback.
ExecExceptNoRollback(p) ==
    /\ pc[p] = "exec_except"
    /\ UNCHANGED <<dbvars, failed, nWrites, out, calls, sess, rout, cur, log>>
    /\ pc' = [pc EXCEPT ![p] = "exec_finally"]
    /\ UNCHANGED qvars

\* MySQLDb.execute, lines 143-145: self._conn.rollback(), then raise.  On
\* a live connection the rollback discards the uncommitted work; on a
\* connection that is gone it raises, and its error replaces the first.
ExecExcept(p) ==
    /\ pc[p] = "exec_except"
    /\ UNCHANGED <<conn, alive, nextConn, durable, closedBy, failed, nWrites, out,
                   calls, sess, rout>>
    /\ IF Connected(cur[p].w)
       THEN /\ pending' = [pending EXCEPT ![conn[cur[p].w]] = {}]
            /\ inTx' = inTx \ {conn[cur[p].w]}
            /\ log' = [log EXCEPT ![p] = Append(@, "rollback")]
            /\ UNCHANGED cur
       ELSE /\ UNCHANGED <<pending, inTx>>
            /\ log' = [log EXCEPT ![p] = Append(@, "rollback!")]
            /\ cur' = [cur EXCEPT ![p].exc = "RollbackError"]
    /\ pc' = [pc EXCEPT ![p] = "exec_finally"]
    /\ UNCHANGED qvars

\* Variant of ExecFinally: cursor.close() at the end of the try body
\* instead of in finally; a raising call leaves its cursor open.
ExecFinallyCloseOnSuccess(p) ==
    /\ pc[p] = "exec_finally"
    /\ UNCHANGED <<dbvars, nWrites, calls, sess, rout>>
    /\ IF cur[p].exc = "none"
       THEN /\ log' = [log EXCEPT ![p] = Append(@, "close")]
            /\ Finish(p, [cur[p] EXCEPT !.cursor = "closed"], "ok", "none")
       ELSE /\ UNCHANGED log
            /\ Finish(p, cur[p], "raised", cur[p].exc)
    /\ UNCHANGED qvars

\* MySQLDb.execute, lines 146-147: cursor.close(), then the return of
\* line 130, 137 or 141, or the raise of line 145.
ExecFinally(p) ==
    /\ pc[p] = "exec_finally"
    /\ UNCHANGED <<dbvars, nWrites, calls, sess, rout>>
    /\ log' = [log EXCEPT ![p] = Append(@, "close")]
    /\ IF cur[p].exc = "none"
       THEN Finish(p, [cur[p] EXCEPT !.cursor = "closed"], "ok", "none")
       ELSE Finish(p, [cur[p] EXCEPT !.cursor = "closed"], "raised",
                   cur[p].exc)
    /\ UNCHANGED qvars

WrapperStep(p) ==
    \/ ConnectCheck(p)
    \/ ConnectOpen(p)
    \/ CloseCheck(p)
    \/ CloseClear(p)
    \/ ExecCheck(p)
    \/ ExecCursor(p)
    \/ ExecStmt(p)
    \/ ExecFetch(p)
    \/ ExecCommit(p)
    \/ ExecExcept(p)
    \/ ExecFinally(p)

\* ------------------------------------------------------------ the client
\* The client calls connect(), close(), execute(...) or execute_query(...)
\* on its wrapper, one call at a time, in any order.
ClientConnect ==
    /\ pc[Client] = "idle"
    /\ cur' = [cur EXCEPT ![Client] =
                  Frame("connect", ClientWrapper, "idle", "GET", TRUE, 0, 0)]
    /\ pc' = [pc EXCEPT ![Client] = "connect"]
    /\ log' = [log EXCEPT ![Client] = << >>]
    /\ out' = [out EXCEPT ![Client] = NoOut]
    /\ UNCHANGED <<dbvars, failed, nWrites, calls, sess, rout>>
    /\ UNCHANGED qvars

ClientClose ==
    /\ pc[Client] = "idle"
    /\ cur' = [cur EXCEPT ![Client] =
                  Frame("close", ClientWrapper, "idle", "GET", TRUE, 0, 0)]
    /\ pc' = [pc EXCEPT ![Client] = "close"]
    /\ log' = [log EXCEPT ![Client] = << >>]
    /\ out' = [out EXCEPT ![Client] = NoOut]
    /\ UNCHANGED <<dbvars, failed, nWrites, calls, sess, rout>>
    /\ UNCHANGED qvars

\* Statements the call runs: one, or those of the script.
ScriptLens(qt) == IF qt = "SCRIPT" THEN 1..MaxScript ELSE {1}

ClientExecute ==
    /\ pc[Client] = "idle"
    /\ \E op \in {"execute", "execute_query"}, qt \in QueryTypes :
       \E fetchall \in (IF op = "execute_query" THEN BOOLEAN ELSE {TRUE}),
          len \in ScriptLens(qt) :
          /\ IsRead(qt) \/ nWrites < MaxWrites
          /\ nWrites' = IF IsRead(qt) THEN nWrites ELSE nWrites + 1
          /\ cur' = [cur EXCEPT ![Client] =
                        Frame(op, ClientWrapper, "idle", qt, fetchall, len,
                              IF IsRead(qt) THEN 0 ELSE nWrites + 1)]
    /\ log' = [log EXCEPT ![Client] = << >>]
    /\ pc' = [pc EXCEPT ![Client] = "exec"]
    /\ out' = [out EXCEPT ![Client] = NoOut]
    /\ UNCHANGED <<dbvars, failed, calls, sess, rout>>
    /\ UNCHANGED qvars

Next ==
    \/ ClientConnect
    \/ ClientClose
    \/ ClientExecute
    \/ WrapperStep(Client)
    \/ \E c \in ConnIds : ConnLost(c)

Spec == Init /\ [][Next]_vars

\* -------------------------------------------------------- the repository
\* Variant of NewDbManager: every call gets the module-level instance
\* (as MySQLDb.FOX_STAGING is) instead of a new MySQLDb.
NewDbManagerShared(r) == InjectedWrapper

\* QualityRepositoryMYSQL._new_db_manager: a new MySQLDb in a new DbManager
\* for this call.
NewDbManager(r) == FreshWrapper(r)

\* `self._db_manager or self._new_db_manager()`: the wrapper behind the
\* DbManager the call's `with` statement uses.
SessionWrapper(injected, r) ==
    IF injected THEN InjectedWrapper ELSE NewDbManager(r)

\* A repository method reaches its `with` statement: the DbManager is
\* chosen (a new MySQLDb starts with _conn = None) and DbManager.__enter__
\* calls connect().  The repository is one built with a DbManager
\* (injected) or one built without.
RepoStart(r) ==
    /\ pc[r] = "idle"
    /\ calls[r] < MaxRepoCalls
    /\ calls' = [calls EXCEPT ![r] = @ + 1]
    /\ \E injected \in BOOLEAN :
          /\ sess' = [sess EXCEPT ![r] =
                [NoSess EXCEPT !.active = TRUE, !.injected = injected,
                               !.w = SessionWrapper(injected, r)]]
          /\ conn' = IF injected THEN conn
                     ELSE [conn EXCEPT ![SessionWrapper(injected, r)] = NoConn]
          /\ cur' = [cur EXCEPT ![r] =
                [Frame("connect", SessionWrapper(injected, r), "repo_entered",
                       "GET", TRUE, 0, 0)
                 EXCEPT !.c0 = conn'[SessionWrapper(injected, r)]]]
    /\ pc' = [pc EXCEPT ![r] = "connect"]
    /\ log' = [log EXCEPT ![r] = << >>]
    /\ out' = [out EXCEPT ![r] = NoOut]
    /\ rout' = [rout EXCEPT ![r] = NoROut]
    /\ UNCHANGED <<alive, nextConn, inTx, pending, durable, closedBy, failed,
                   nWrites>>
    /\ UNCHANGED qvars

\* DbManager.__enter__ returned or raised.  If connect() raised, the
\* `with` block is never entered, __exit__ is not called and the error
\* reaches the caller.  Otherwise the block runs
\* db.execute_query(sql, params, query_type=QueryType.GET).
RepoEntered(r) ==
    /\ pc[r] = "repo_entered"
    /\ UNCHANGED <<dbvars, failed, nWrites, calls>>
    /\ IF out[r].status = "raised"
       THEN /\ rout' = [rout EXCEPT ![r] =
                  [NoROut EXCEPT !.status = "raised", !.error = out[r].error,
                                 !.injected = sess[r].injected]]
            /\ sess' = [sess EXCEPT ![r] = NoSess]
            /\ pc' = [pc EXCEPT ![r] = "idle"]
            /\ out' = [out EXCEPT ![r] = NoOut]
            /\ UNCHANGED <<cur, log>>
       ELSE /\ sess' = [sess EXCEPT ![r].entered = TRUE,
                                    ![r].c = out[r].c1,
                                    ![r].trace = Append(@, "connect")]
            /\ cur' = [cur EXCEPT ![r] =
                  Frame("execute_query", sess[r].w, "repo_exit", "GET", TRUE,
                        1, 0)]
            /\ pc' = [pc EXCEPT ![r] = "exec"]
            /\ log' = [log EXCEPT ![r] = << >>]
            /\ out' = [out EXCEPT ![r] = NoOut]
            /\ UNCHANGED rout
    /\ UNCHANGED qvars

\* Variant of ExitCloses: close() only when the block ended normally.
ExitClosesOnSuccess(exc) == exc = "none"

\* DbManager.__exit__(exc_type, exc, tb): does it call close() when the
\* block ended with exception exc ("none": no exception)?  Always.
ExitCloses(exc) == TRUE

\* Does __exit__ swallow the exception of the block?  It returns None.
ExitSuppresses(exc) == FALSE

\* The `with` block ends, by the assignment of rows or by the exception of
\* execute_query: DbManager.__exit__ calls close().
RepoExit(r) ==
    /\ pc[r] = "repo_exit"
    /\ sess' = [sess EXCEPT ![r].blockErr = out[r].error,
                            ![r].rows = out[r].rows,
                            ![r].trace = Append(@, "execute")]
    /\ IF ExitCloses(out[r].error)
       THEN /\ cur' = [cur EXCEPT ![r] =
                  Frame("close", sess[r].w, "repo_done", "GET", TRUE, 0, 0)]
            /\ pc' = [pc EXCEPT ![r] = "close"]
            /\ out' = [out EXCEPT ![r] = NoOut]
       ELSE /\ pc' = [pc EXCEPT ![r] = "repo_done"]
            /\ out' = [out EXCEPT ![r] =
                  [NoOut EXCEPT !.c1 = conn[sess[r].w],
                                !.live1 = (conn[sess[r].w] \in alive)]]
            /\ UNCHANGED cur
    /\ log' = [log EXCEPT ![r] = << >>]
    /\ UNCHANGED <<dbvars, failed, nWrites, calls, rout>>
    /\ UNCHANGED qvars

\* DbManager.__exit__ returned: the exception of the block, if any, goes
\* on to the caller; otherwise the method returns `rows or []`.
RepoDone(r) ==
    /\ pc[r] = "repo_done"
    /\ rout' = [rout EXCEPT ![r] =
          [status |-> IF sess[r].blockErr = "none"
                         \/ ExitSuppresses(sess[r].blockErr)
                      THEN "ok" ELSE "raised",
           error |-> IF ExitSuppresses(sess[r].blockErr) THEN "none"
                     ELSE sess[r].blockErr,
           injected |-> sess[r].injected, entered |-> TRUE,
           blockErr |-> sess[r].blockErr, rows |-> sess[r].rows,
           trace |-> IF out[r].op = "close"
                     THEN Append(sess[r].trace, "close") ELSE sess[r].trace,
           exitLive |-> out[r].live1]]
    /\ sess' = [sess EXCEPT ![r] = NoSess]
    /\ pc' = [pc EXCEPT ![r] = "idle"]
    /\ out' = [out EXCEPT ![r] = NoOut]
    /\ UNCHANGED <<dbvars, failed, nWrites, calls, cur, log>>
    /\ UNCHANGED qvars

\* The repository only reads (QueryType.GET): the commit of execute is
\* never reached from it.
RepoWrapperStep(r) ==
    \/ ConnectCheck(r)
    \/ ConnectOpen(r)
    \/ CloseCheck(r)
    \/ CloseClear(r)
    \/ ExecCheck(r)
    \/ ExecCursor(r)
    \/ ExecStmt(r)
    \/ ExecFetch(r)
    \/ ExecExcept(r)
    \/ ExecFinally(r)

NextRepo ==
    \/ \E r \in Callers : RepoStart(r)
    \/ \E r \in Callers : RepoEntered(r)
    \/ \E r \in Callers : RepoExit(r)
    \/ \E r \in Callers : RepoDone(r)
    \/ \E r \in Callers : RepoWrapperStep(r)

SpecRepo == Init /\ [][NextRepo]_vars

\* ======================================================================
\* Properties
\* ======================================================================
Count(seq, e) == Cardinality({i \in 1..Len(seq) : seq[i] = e})
Has(seq, e) == \E i \in 1..Len(seq) : seq[i] = e
Stmts(k) == [i \in 1..k |-> "stmt"]

\* o is the outcome of an execute / execute_query call that has ended
IsExecOut(o) == o.op \in {"execute", "execute_query"} /\ o.status # "none"
\* the call made a rollback call (which returned, or raised)
RollbackCalls(o) == Count(o.log, "rollback") + Count(o.log, "rollback!")
\* the physical connection behind w is open, as the server sees it
Live(w) == conn[w] \in alive
\* connections that went away without close()
Lost == {c \in ConnIds : c < nextConn /\ c \notin alive /\ c \notin closedBy}

\* ---------------------------------------------------------------- C1
\* C1 (as claimed): for every operation kind, if the statement, the fetch
\* or the commit raises inside execute, execute calls rollback, and only
\* then the caller gets that same error; no commit succeeds in the call.
C1_RollbackThenSameError ==
    \A p \in Procs :
        LET o == out[p] IN
        (IsExecOut(o) /\ o.first # "none") =>
            /\ o.status = "raised"
            /\ o.error = o.first
            /\ RollbackCalls(o) = 1
            /\ Len(o.log) >= 3
            /\ o.log[Len(o.log) - 2] \in {"stmt!", "fetch!", "commit!"}
            /\ o.log[Len(o.log) - 1] \in {"rollback", "rollback!"}
            /\ ~Has(o.log, "commit")

\* ---------------------------------------------------------------- C2
\* C2: a repository call whose `with` block was entered has called connect
\* once, then execute_query, then close once, whether the block ended
\* normally or by an exception of execute; when __exit__ returns the
\* wrapper holds no connection; the exception of the block is what the
\* caller gets, after the close, and a normal block returns normally.
C2_SessionClosedOnEveryPath ==
    \A r \in Callers :
        /\ pc[r] = "repo_done" =>
              /\ out[r].op = "close"
              /\ out[r].status = "ok"
              /\ out[r].c1 = NoConn
              /\ ~out[r].live1
        /\ rout[r].entered =>
              /\ rout[r].trace = <<"connect", "execute", "close">>
              /\ ~rout[r].exitLive
              /\ rout[r].error = rout[r].blockErr
              /\ rout[r].status = (IF rout[r].blockErr = "none" THEN "ok"
                                   ELSE "raised")

\* a call whose execute raised has returned (raising), another normally
C2_Witness ==
    /\ \E r \in Callers : rout[r].entered /\ rout[r].status = "raised"
                          /\ rout[r].error \in {"StmtError", "FetchError"}
    /\ \E r \in Callers : rout[r].entered /\ rout[r].status = "ok"

\* ---------------------------------------------------------------- C3
\* the call of r is between the return of its connect and its close
InSession(r) ==
    /\ sess[r].entered
    /\ pc[r] \in {"exec", "exec_cursor", "exec_stmt", "exec_fetch",
                  "exec_except", "exec_finally", "repo_exit"}

\* C3 (as claimed): for every repository, built with or without an
\* injected DbManager, the close at the end of one call never closes the
\* connection another call is still using between its connect and close.
C3_NoCallClosesAnothers ==
    \A r \in Callers : InSession(r) => sess[r].c \notin closedBy

\* C3 (amended): for a repository built without a DbManager, a call shares
\* its wrapper with no other call, and between its connect and its close
\* the wrapper keeps the connection the call opened and nobody closes it.
C3_OwnSessionWhenNotInjected ==
    \A r \in Callers :
        (sess[r].active /\ ~sess[r].injected) =>
            /\ \A q \in Callers \ {r} : sess[q].active => sess[q].w # sess[r].w
            /\ InSession(r) =>
                  /\ sess[r].c \notin closedBy
                  /\ conn[sess[r].w] = sess[r].c

\* one call without injected manager is in its session while another such
\* call has run to its end and closed its own connection
C3_Witness ==
    \E r \in Callers, q \in Callers :
        /\ r # q
        /\ InSession(r) /\ ~sess[r].injected /\ Live(sess[r].w)
        /\ rout[q].entered /\ ~rout[q].injected
        /\ closedBy # {}

\* ---------------------------------------------------------------- C4
\* C4: execute on a wrapper that is not connected (_conn is None, or the
\* connection is not open) raises NotConnected at the check: no cursor, no
\* statement, no commit, no rollback, and nothing of the wrapper or of the
\* connections changes.
C4_NotConnectedRaisesFirst ==
    [][\A p \in Procs :
          (pc[p] = "exec" /\ pc'[p] # "exec" /\ ~Live(cur[p].w)) =>
              /\ out'[p].status = "raised"
              /\ out'[p].error = "NotConnected"
              /\ out'[p].log = << >>
              /\ out'[p].cursor = "none"
              /\ UNCHANGED dbvars]_vars

\* execute failed so on a wrapper that had been connected before
C4_Witness ==
    /\ out[Client].error = "NotConnected"
    /\ out[Client].log = << >>
    /\ nextConn > 1

\* ---------------------------------------------------------------- C5
\* C5: a successful INSERT / UPDATE / DELETE ran its statement, then
\* committed once, with no rollback, before returning the empty sequence;
\* its change is durable.
C5_WriteCommitsOnce ==
    \A p \in Procs :
        LET o == out[p] IN
        (IsExecOut(o) /\ o.status = "ok"
            /\ o.qt \in {"INSERT", "UPDATE", "DELETE"}) =>
            /\ o.log = <<"cursor", "stmt", "commit", "close">>
            /\ o.rows = << >>
            /\ <<o.n, 1>> \in durable

C5_Witness ==
    /\ IsExecOut(out[Client])
    /\ out[Client].status = "ok"
    /\ out[Client].qt = "UPDATE"

\* ---------------------------------------------------------------- C6
\* C6: a successful SCRIPT ran all its statements in order, then committed
\* once, and returns the empty sequence with every change durable; a
\* SCRIPT that raised committed nothing, and none of its changes is
\* durable or still uncommitted on a connection.
C6_ScriptAllOrNothing ==
    \A p \in Procs :
        LET o == out[p] IN
        (IsExecOut(o) /\ o.qt = "SCRIPT") =>
            /\ o.status = "ok" =>
                  /\ o.log = <<"cursor">> \o Stmts(o.len)
                                \o <<"commit", "close">>
                  /\ o.rows = << >>
                  /\ \A i \in 1..o.len : <<o.n, i>> \in durable
            /\ o.status = "raised" =>
                  /\ ~Has(o.log, "commit")
                  /\ \A i \in 1..o.len :
                        /\ <<o.n, i>> \notin durable
                        /\ \A c \in ConnIds : <<o.n, i>> \notin pending[c]

\* a two-statement script committed, and a later script failed at its
\* second statement and was rolled back
C6_Witness ==
    /\ {<<1, 1>>, <<1, 2>>} \subseteq durable
    /\ out[Client].qt = "SCRIPT"
    /\ out[Client].n = 2
    /\ out[Client].log = <<"cursor", "stmt", "stmt!", "rollback", "close">>

\* ---------------------------------------------------------------- C7
\* C7 (as claimed): when an execute call has returned or raised, the
\* connection holds no open transaction: every call that reached the
\* statement ended in a commit or a rollback.
C7_NoOpenTransactionAfterCall ==
    \A p \in Procs :
        LET o == out[p] IN
        IsExecOut(o) =>
            /\ ~o.tx1
            /\ Has(o.log, "cursor") =>
                  (Has(o.log, "commit") \/ RollbackCalls(o) = 1)

\* C7 (amended): when an execute call has returned or raised, no
\* uncommitted change is left on any connection; a write that returned
\* ended in its commit and a call that raised in the try ended in its
\* rollback call; a read that returned made neither call, and only after
\* such a read is a transaction still open on the connection.
C7_OnlyReadsLeaveTransaction ==
    \A p \in Procs :
        LET o == out[p] IN
        IsExecOut(o) =>
            /\ \A c \in ConnIds : pending[c] = {}
            /\ o.tx1 => (o.status = "ok" /\ IsRead(o.qt))
            /\ (o.status = "ok" /\ ~IsRead(o.qt)) =>
                  (Count(o.log, "commit") = 1 /\ RollbackCalls(o) = 0)
            /\ o.first # "none" =>
                  (RollbackCalls(o) = 1 /\ ~Has(o.log, "commit"))
            /\ (o.status = "ok" /\ IsRead(o.qt)) =>
                  (~Has(o.log, "commit") /\ RollbackCalls(o) = 0)

\* a read has returned and its transaction is open on the live connection
C7_Witness ==
    /\ IsExecOut(out[Client])
    /\ out[Client].status = "ok"
    /\ out[Client].qt = "SELECT"
    /\ out[Client].tx1
    /\ conn[ClientWrapper] \in inTx

\* ---------------------------------------------------------------- C8
\* an execution error: execute raised something other than NotConnected
ExecutionError(o) ==
    IsExecOut(o) /\ o.status = "raised" /\ o.error # "NotConnected"

\* C8 (as claimed): after an execute call failed with an execution error
\* the wrapper is still connected, and no change of a failed call is ever
\* durable.
C8_StillConnectedAfterFailure ==
    /\ \A p \in Procs : ExecutionError(out[p]) => out[p].live1
    /\ \A ch \in durable : ch[1] \notin failed

\* C8 (amended): after an execute call failed with an execution error the
\* wrapper holds the connection it held before; unless that connection was
\* lost it is still connected, with no open transaction; and no change of
\* a failed call is ever durable or left uncommitted on a connection.
C8_CleanAfterFailureUnlessLost ==
    /\ \A p \in Procs :
          LET o == out[p] IN
          ExecutionError(o) =>
              /\ o.c1 = o.c0
              /\ o.live1 \/ o.c1 \in Lost
              /\ o.live1 => ~o.tx1
    /\ \A ch \in durable : ch[1] \notin failed
    /\ \A c \in ConnIds : \A ch \in pending[c] : ch[1] \notin failed

\* the first write failed on the live connection, and the second write, on
\* the same wrapper and connection, succeeded
C8_Witness ==
    /\ failed = {1}
    /\ nextConn = 2
    /\ alive = {1}
    /\ IsExecOut(out[Client])
    /\ out[Client].status = "ok"
    /\ out[Client].n = 2
    /\ <<2, 1>> \in durable

\* ---------------------------------------------------------------- C9
\* C9: an execute call that passed the connected check and got its cursor
\* closes it exactly once, as the last thing before it returns or raises,
\* on every path: read, write, script, statement / fetch / commit error,
\* and when the rollback itself raises; no call ends with an open cursor.
C9_CursorClosedOnce ==
    \A p \in Procs :
        LET o == out[p] IN
        /\ IsExecOut(o) =>
              /\ o.cursor \in {"none", "closed"}
              /\ (o.live0 /\ o.error # "CursorError") => Has(o.log, "cursor")
              /\ Has(o.log, "cursor") =>
                    /\ o.cursor = "closed"
                    /\ Count(o.log, "cursor") = 1
                    /\ Count(o.log, "close") = 1
                    /\ o.log[Len(o.log)] = "close"
        /\ cur[p].cursor = "open" =>
              pc[p] \in {"exec_stmt", "exec_fetch", "exec_commit",
                         "exec_except", "exec_finally"}

\* the rollback raised, and the cursor was closed all the same
C9_Witness ==
    /\ out[Client].error = "RollbackError"
    /\ out[Client].log[Len(out[Client].log) - 1] = "rollback!"
    /\ out[Client].cursor = "closed"

\* --------------------------------------------------------------- C10
\* C10: connect() on a connected wrapper returns at once: no physical
\* connection is opened and _conn is the one it was; so the wrapper never
\* has more than one open connection, its _conn, and once close() has
\* returned no connection is open.
C10_ConnectIdempotent ==
    /\ \A c \in alive : conn[ClientWrapper] = c
    /\ \A p \in Procs :
          LET o == out[p] IN
          /\ (o.op = "connect" /\ o.live0) =>
                (o.status = "ok" /\ o.c1 = o.c0 /\ o.n1 = o.n0)
          /\ (o.op = "close" /\ o.status # "none") => alive = {}

\* connect() has returned on a wrapper that was already connected
C10_Witness ==
    /\ out[Client].op = "connect"
    /\ out[Client].live0
    /\ out[Client].status = "ok"
    /\ Live(ClientWrapper)

\* C11: close() never raises and always leaves the wrapper without a
\* connection (_conn is None, so not connected), whether the wrapper was
\* never connected, already closed, or held a dead connection; a close on a
\* wrapper that holds no connection changes nothing, so close; close is one
\* close; an execute on a wrapper whose _conn is None raises NotConnected
\* without any driver call, and only connect() gives the wrapper a
\* connection again.
C11_CloseLeavesNotConnected ==
    /\ [](LET o == out[Client] IN
            /\ (o.op = "close" /\ o.status # "none") =>
                  /\ o.status = "ok"
                  /\ o.c1 = NoConn
                  /\ ~o.live1
                  /\ conn[o.w] = NoConn
            /\ (IsExecOut(o) /\ o.c0 = NoConn) =>
                  /\ o.status = "raised"
                  /\ o.error = "NotConnected"
                  /\ o.log = << >>)
    /\ [][/\ (pc[Client] \in {"close", "close_clear"}
              /\ cur[Client].c0 = NoConn) => UNCHANGED dbvars
          /\ (conn[ClientWrapper] = NoConn /\ conn'[ClientWrapper] # NoConn)
                => pc[Client] = "connect_open"]_vars

\* a connected wrapper was closed and the execute that
\* followed raised NotConnected
C11_Witness ==
    /\ closedBy # {}
    /\ out[Client].op = "execute"
    /\ out[Client].c0 = NoConn
    /\ out[Client].error = "NotConnected"
    /\ conn[ClientWrapper] = NoConn

\* C12: a successful Read through execute returns the rows the database
\* produced, in their order; execute_query returns that same sequence with
\* fetchall true, the one-element sequence of the first row with fetchall
\* false and at least one row, and the empty sequence when there is no
\* row; for a non-read kind both return the empty sequence, and only after
\* the commit.
C12_RowsReturned ==
    LET o == out[Client] IN
    (IsExecOut(o) /\ o.status = "ok") =>
       IF IsRead(o.qt)
       THEN /\ Has(o.log, "fetch")
            /\ IF o.op = "execute" \/ o.fetchall
               THEN o.rows = o.dbrows
               ELSE IF Len(o.dbrows) >= 1
                    THEN o.rows = <<o.dbrows[1]>>
                    ELSE o.rows = << >>
       ELSE /\ o.rows = << >>
            /\ Count(o.log, "commit") = 1

\* execute_query with fetchall false returned the first of two rows
C12_Witness ==
    /\ out[Client].op = "execute_query"
    /\ out[Client].status = "ok"
    /\ IsRead(out[Client].qt)
    /\ ~out[Client].fetchall
    /\ Len(out[Client].dbrows) = 2
    /\ out[Client].rows = <<out[Client].dbrows[1]>>

\* ====================================================================
\* The quality module: query definitions (app/quality/sql), repository
\* (app/quality/repo) and projection service (app/quality/service).
\* ====================================================================
\* ------------------------------------------------------------ bounds
\* document headers stored in doctes
MaxDocs == 2
\* document lines stored in docrig
MaxLines == 2
\* optional filters a caller supplies (not None) in one search
MaxSupplied == 2

\* ------------------------------------------------- values and strings
\* A Python or SQL value: None / NULL is the empty tuple and any other
\* value v is <<v>>; a string is the sequence of its characters.
Null == << >>
Some(v) == <<v>>
IsNull(x) == Len(x) = 0
The(x) == x[1]

\* the characters str.strip() removes
Whitespace == {" "}

RECURSIVE LStrip(_)
LStrip(s) ==
    IF Len(s) > 0 /\ s[1] \in Whitespace THEN LStrip(Tail(s)) ELSE s

RECURSIVE RStrip(_)
RStrip(s) ==
    IF Len(s) > 0 /\ s[Len(s)] \in Whitespace
    THEN RStrip(SubSeq(s, 1, Len(s) - 1))
    ELSE s

\* str.strip()
Strip(s) == RStrip(LStrip(s))

LowerLetters == <<"a", "b", "c", "i", "l", "n", "o">>
UpperLetters == <<"A", "B", "C", "I", "L", "N", "O">>

UpperChar(c) ==
    IF \E i \in 1..Len(LowerLetters) : LowerLetters[i] = c
    THEN UpperLetters[CHOOSE i \in 1..Len(LowerLetters) : LowerLetters[i] = c]
    ELSE c

\* str.upper() and SQL UPPER()
Upper(s) == IF Len(s) = 0 THEN << >> ELSE [i \in 1..Len(s) |-> UpperChar(s[i])]

\* Python `x or ""` for an optional string
OrEmpty(x) == IF IsNull(x) THEN << >> ELSE The(x)
\* Python `s or None` for a string
OrNone(s) == IF Len(s) = 0 THEN Null ELSE Some(s)

\* t occurs in s as a contiguous substring
Contains(s, t) ==
    \E i \in 0..(Len(s) - Len(t)) : SubSeq(s, i + 1, i + Len(t)) = t

\* the characters in the order of their codes, for ORDER BY on strings
CharOrder ==
    <<" ", "%", "-", "1", "2", "7", "A", "B", "C", "E", "F", "I", "K", "L",
      "N", "O", "P", "Q", "T", "_", "a", "b", "c", "i", "l", "n", "o">>
Rank(c) == CHOOSE i \in 1..Len(CharOrder) : CharOrder[i] = c

RECURSIVE StrLess(_, _)
StrLess(a, b) ==
    IF Len(b) = 0 THEN FALSE
    ELSE IF Len(a) = 0 THEN TRUE
    ELSE IF a[1] = b[1] THEN StrLess(Tail(a), Tail(b))
    ELSE Rank(a[1]) < Rank(b[1])

\* ------------------------------------------- SQL three-valued logic
\* "T", "F" and "U" (UNKNOWN, the truth value of NULL)
Not3(a) == IF a = "T" THEN "F" ELSE IF a = "F" THEN "T" ELSE "U"
AndAll(s) ==
    IF \E i \in 1..Len(s) : s[i] = "F" THEN "F"
    ELSE IF \A i \in 1..Len(s) : s[i] = "T" THEN "T" ELSE "U"
OrAll(s) ==
    IF \E i \in 1..Len(s) : s[i] = "T" THEN "T"
    ELSE IF \A i \in 1..Len(s) : s[i] = "F" THEN "F" ELSE "U"
\* x IS NULL
IsNull3(x) == IF IsNull(x) THEN "T" ELSE "F"
\* x = y; strings compare character by character (binary collation)
Eq3(x, y) ==
    IF IsNull(x) \/ IsNull(y) THEN "U"
    ELSE IF The(x) = The(y) THEN "T" ELSE "F"
\* x IN (set of literals)
In3(x, S) == IF IsNull(x) THEN "U" ELSE IF The(x) \in S THEN "T" ELSE "F"

\* s LIKE pat on strings: % matches any run of characters, _ any one
RECURSIVE LikeMatch(_, _)
LikeMatch(s, pat) ==
    IF Len(pat) = 0 THEN Len(s) = 0
    ELSE IF pat[1] = "%"
         THEN LikeMatch(s, Tail(pat))
              \/ (Len(s) > 0 /\ LikeMatch(Tail(s), pat))
         ELSE /\ Len(s) > 0
              /\ (pat[1] = "_" \/ pat[1] = s[1])
              /\ LikeMatch(Tail(s), Tail(pat))

\* x LIKE pat
Like3(x, pat) ==
    IF IsNull(x) \/ IsNull(pat) THEN "U"
    ELSE IF LikeMatch(The(x), The(pat)) THEN "T" ELSE "F"

\* CONCAT(a, b, c): NULL when an argument is NULL
Concat3(a, b, c) ==
    IF IsNull(a) \/ IsNull(b) \/ IsNull(c) THEN Null
    ELSE Some(The(a) \o The(b) \o The(c))

\* the literal '%%' of the templates
Pct == Some(<<"%", "%">>)
\* column LIKE CONCAT('%%', %s, '%%')
LikeParam(col, v) == Like3(col, Concat3(Pct, v, Pct))

\* COALESCE(a, b)
Coalesce(a, b) == IF IsNull(a) THEN b ELSE a

\* the orders in which the rows of a result set S can be arranged; an
\* ORDER BY admits those that put no row after one it must precede, so
\* rows with equal keys come in any order
RECURSIVE Perms(_)
Perms(S) ==
    IF S = {} THEN {<< >>}
    ELSE UNION {{<<x>> \o p : p \in Perms(S \ {x})} : x \in S}

\* LIMIT lim OFFSET off
LimitOffset(o, lim, off) ==
    SubSeq(o, off + 1, IF off + lim < Len(o) THEN off + lim ELSE Len(o))

\* ------------------------------------------------------ stored data
\* TIPI_DOC_LAVORO of the query definitions
TIPI_DOC_LAVORO ==
    {<<"O", "C">>, <<"O", "N">>, <<"B", "A">>, <<"C", "B">>, <<"B", "C">>,
     <<"B", "O">>}
\* Variant of DEFAULT_TIPI_DOC: without BA.
DefaultTipiDocWithoutBA ==
    {<<"O", "C">>, <<"O", "N">>, <<"C", "B">>, <<"B", "C">>, <<"B", "O">>}

\* DEFAULT_TIPI_DOC of the service
DEFAULT_TIPI_DOC ==
    {<<"O", "C">>, <<"O", "N">>, <<"B", "A">>, <<"C", "B">>, <<"B", "C">>,
     <<"B", "O">>}

\* a row of doctes
Doc(t, y, n, date, cf) ==
    [tipodoc |-> Some(t), esanno |-> Some(y), numerodoc |-> Some(n),
     datadoc |-> Some(date), codicecf |-> Some(cf)]

\* a row of docrig
Line(t, y, n, riga, arti, descr, id) ==
    [tipodoc |-> Some(t), esanno |-> Some(y), numerodoc |-> Some(n),
     numeroriga |-> Some(riga), codicearti |-> arti, descrizion |-> descr,
     id |-> Some(id)]

\* The documents that may be stored: two recognized ones with the same
\* date and number, one of a type outside the recognized set, and one whose
\* counterparty has no record in anagrafe.
DocUniverse ==
    {Doc(<<"O", "C">>, 2024, <<"A", "-", "1">>, 2, <<"K", "1">>),
     Doc(<<"B", "A">>, 2024, <<"A", "-", "1">>, 2, <<"K", "2">>),
     Doc(<<"F", "T">>, 2024, <<"A", "-", "1">>, 3, <<"K", "1">>),
     Doc(<<"O", "N">>, 2023, <<"B", "2">>, 1, <<"K", "7">>)}

\* The lines that may be stored: of the first document an item line, a
\* note line with an empty item code and an item line without description
\* and without item-master record; of the second a packaging line.
LineUniverse ==
    {Line(<<"O", "C">>, 2024, <<"A", "-", "1">>, 1,
          Some(<<"P", "1">>), Some(<<"A", "B">>), 1),
     Line(<<"O", "C">>, 2024, <<"A", "-", "1">>, 2,
          Some(<< >>), Some(<<"N", "B">>), 2),
     Line(<<"O", "C">>, 2024, <<"A", "-", "1">>, 3,
          Some(<<"Q", "2">>), Null, 3),
     Line(<<"B", "A">>, 2024, <<"A", "-", "1">>, 1,
          Some(<<"c", "o", "n", "a", "i">>), Some(<<"A", "B">>), 4)}

\* table anagrafe (counterparties); CODICE identifies the counterparty
anagrafe ==
    {[CODICE |-> Some(<<"K", "1">>), DESCRIZION |-> Some(<<"A", "B">>),
      SUPRAGSOC |-> Null],
     [CODICE |-> Some(<<"K", "2">>), DESCRIZION |-> Some(<<"B", "1">>),
      SUPRAGSOC |-> Some(<<"B", "A">>)],
     [CODICE |-> Some(<< >>), DESCRIZION |-> Some(<<"A", "B">>),
      SUPRAGSOC |-> Null]}

\* table magart (item master); CODICE identifies the item
magart ==
    {[CODICE |-> Some(<<"P", "1">>), DESCRIZION |-> Some(<<"P", "E", "T">>),
      U_PASSO |-> Some(<<"7">>), U_FASCIA |-> Null]}

\* table u_scimp (quality attributes), keyed by the line's id
u_scimp ==
    {[id_rigadoc |-> Some(3), passo |-> Some(<<"2">>),
      fascia |-> Some(<<"A">>)]}

\* LEFT JOIN anagrafe a ON a.CODICE = d.codicecf
JoinAnagrafe(d) ==
    LET M == {a \in anagrafe : Eq3(a.CODICE, d.codicecf) = "T"} IN
    IF M = {}
    THEN [CODICE |-> Null, DESCRIZION |-> Null, SUPRAGSOC |-> Null]
    ELSE CHOOSE a \in M : TRUE

\* LEFT JOIN magart ma ON ma.CODICE = r.codicearti
JoinMagart(r) ==
    LET M == {m \in magart : Eq3(m.CODICE, r.codicearti) = "T"} IN
    IF M = {}
    THEN [CODICE |-> Null, DESCRIZION |-> Null, U_PASSO |-> Null,
          U_FASCIA |-> Null]
    ELSE CHOOSE m \in M : TRUE

\* LEFT JOIN u_scimp us ON us.id_rigadoc = r.id
JoinUscimp(r) ==
    LET M == {u \in u_scimp : Eq3(u.id_rigadoc, r.id) = "T"} IN
    IF M = {}
    THEN [id_rigadoc |-> Null, passo |-> Null, fascia |-> Null]
    ELSE CHOOSE u \in M : TRUE

\* r.tipodoc = d.tipodoc AND r.esanno = d.esanno AND r.numerodoc = d.numerodoc
LineOf(r, d) ==
    AndAll(<<Eq3(r.tipodoc, d.tipodoc), Eq3(r.esanno, d.esanno),
             Eq3(r.numerodoc, d.numerodoc)>>) = "T"

\* the data arrives in the staging database from outside this program
StoreDocument(d) ==
    /\ qres.op = "none"
    /\ d \notin doctes
    /\ Cardinality(doctes) < MaxDocs
    /\ doctes' = doctes \cup {d}
    /\ UNCHANGED <<docrig, qres, qprev>>
    /\ UNCHANGED <<dbvars, failed, nWrites, pc, cur, log, out, calls, sess,
                   rout>>

StoreLine(r) ==
    /\ qres.op = "none"
    /\ r \notin docrig
    /\ \E d \in doctes : LineOf(r, d)
    /\ Cardinality(docrig) < MaxLines
    /\ docrig' = docrig \cup {r}
    /\ UNCHANGED <<doctes, qres, qprev>>
    /\ UNCHANGED <<dbvars, failed, nWrites, pc, cur, log, out, calls, sess,
                   rout>>

\* ------------------------------------------------- query definitions
\* A returned row maps column aliases to values; an alias is written
\* <<prefix, name>> with prefix "d_", "r_" or "" (d_tipodoc is <<"d_",
\* "tipodoc">>).  Of the header and line columns the templates select, the
\* model keeps those the filters, the ordering and the service use.

\* the d_ columns
HeaderColumns(d, a) ==
    (<<"d_", "tipodoc">> :> d.tipodoc)
    @@ (<<"d_", "esanno">> :> d.esanno)
    @@ (<<"d_", "numerodoc">> :> d.numerodoc)
    @@ (<<"d_", "datadoc">> :> d.datadoc)
    @@ (<<"d_", "codicecf">> :> d.codicecf)
    @@ (<<"d_", "cliente_nome">> :> Coalesce(a.SUPRAGSOC, a.DESCRIZION))

\* the r_ columns
LineColumns(r, ma, us) ==
    (<<"r_", "numeroriga">> :> r.numeroriga)
    @@ (<<"r_", "codicearti">> :> r.codicearti)
    @@ (<<"r_", "descrizione_articolo">> :> ma.DESCRIZION)
    @@ (<<"r_", "descrizione_riga">> :> r.descrizion)
    @@ (<<"r_", "pass">> :> Coalesce(us.passo, ma.U_PASSO))
    @@ (<<"r_", "fascia">> :> Coalesce(us.fascia, ma.U_FASCIA))

\* The filter each %s of search_schede_lavoro_sql belongs to, in the order
\* of the template text.
SearchSchedeLavoroSlots ==
    <<"tipodoc", "tipodoc", "numerodoc", "numerodoc", "year", "year",
      "codicecf", "codicecf", "fornitore", "fornitore", "fornitore",
      "articolo", "articolo", "articolo", "articolo", "articolo", "articolo",
      "limit", "offset">>

\* the EXISTS subquery of search_schede_lavoro_sql, lines 131-148
ExistsArticolo(d, p) ==
    IF \E r2 \in docrig :
          /\ LineOf(r2, d)
          /\ OrAll(<<LikeParam(r2.codicearti, p[13]),
                     LikeParam(r2.descrizion, p[14]),
                     LikeParam(JoinMagart(r2).DESCRIZION, p[15]),
                     LikeParam(JoinUscimp(r2).passo, p[16]),
                     LikeParam(JoinUscimp(r2).fascia, p[17])>>) = "T"
    THEN "T" ELSE "F"

\* the WHERE clause of search_schede_lavoro_sql, lines 105-149
SearchSchedeLavoroWhere(d, p) ==
    AndAll(<<In3(d.tipodoc, TIPI_DOC_LAVORO),
             OrAll(<<IsNull3(p[1]), Eq3(d.tipodoc, p[2])>>),
             OrAll(<<IsNull3(p[3]), LikeParam(d.numerodoc, p[4])>>),
             OrAll(<<IsNull3(p[5]), Eq3(d.esanno, p[6])>>),
             OrAll(<<IsNull3(p[7]), Eq3(d.codicecf, p[8])>>),
             OrAll(<<IsNull3(p[9]),
                     LikeParam(JoinAnagrafe(d).DESCRIZION, p[10]),
                     LikeParam(JoinAnagrafe(d).SUPRAGSOC, p[11])>>),
             OrAll(<<IsNull3(p[12]), ExistsArticolo(d, p)>>)>>)

\* Variant of DocBefore: ORDER BY d.datadoc ASC, d.numerodoc ASC.
DocBeforeAscending(x, y) ==
    \/ The(x.datadoc) < The(y.datadoc)
    \/ /\ The(x.datadoc) = The(y.datadoc)
       /\ StrLess(The(x.numerodoc), The(y.numerodoc))

\* ORDER BY d.datadoc DESC, d.numerodoc DESC
DocBefore(x, y) ==
    \/ The(x.datadoc) > The(y.datadoc)
    \/ /\ The(x.datadoc) = The(y.datadoc)
       /\ StrLess(The(y.numerodoc), The(x.numerodoc))

\* Variant of SearchSchedeLavoroSql: the lines are joined to the headers
\* instead of being tested with EXISTS, one row per line of the document.
SearchSchedeLavoroSqlJoined(p) ==
    LET S == {x \in doctes \X docrig :
                 /\ LineOf(x[2], x[1])
                 /\ SearchSchedeLavoroWhere(x[1], p) = "T"} IN
    {LET page == LimitOffset(o, The(p[18]), The(p[19])) IN
       IF Len(page) = 0 THEN << >>
       ELSE [i \in 1..Len(page) |->
                HeaderColumns(page[i][1], JoinAnagrafe(page[i][1]))]
     : o \in {q \in Perms(S) :
                \A i \in 1..Len(q) : \A j \in (i + 1)..Len(q) :
                   ~DocBefore(q[j][1], q[i][1])}}

\* search_schede_lavoro_sql: the row sequences the database may return
\* for the bound parameters p
SearchSchedeLavoroSql(p) ==
    LET S == {d \in doctes : SearchSchedeLavoroWhere(d, p) = "T"} IN
    {LET page == LimitOffset(o, The(p[18]), The(p[19])) IN
       IF Len(page) = 0 THEN << >>
       ELSE [i \in 1..Len(page) |->
                HeaderColumns(page[i], JoinAnagrafe(page[i]))]
     : o \in {q \in Perms(S) :
                \A i \in 1..Len(q) : \A j \in (i + 1)..Len(q) :
                   ~DocBefore(q[j], q[i])}}

\* The filter each %s of search_articoli_per_cliente_sql belongs to.
SearchArticoliPerClienteSlots ==
    <<"tipodoc", "tipodoc", "year", "year", "codicecf", "codicecf",
      "cliente", "cliente", "cliente",
      "articolo", "articolo", "articolo", "articolo", "articolo", "articolo",
      "limit", "offset">>

\* UPPER(x)
Upper3(x) == IF IsNull(x) THEN Null ELSE Some(Upper(The(x)))

\* Variant of SentinelMatch: no packaging pattern is tested.
SentinelMatchNever(r, ma) == "F"

\* the packaging patterns of search_articoli_per_cliente_sql, lines 263-270
SentinelMatch(r, ma) ==
    OrAll(<<Like3(Upper3(r.codicearti),
                  Some(<<"C", "O", "N", "A", "I", "%", "%">>)),
            Like3(Upper3(r.codicearti),
                  Some(<<"B", "A", "N", "C", "A", "L", "E", "%", "%">>)),
            Like3(Upper3(r.descrizion),
                  Some(<<"%", "C", "O", "N", "A", "I", "%">>)),
            Like3(Upper3(r.descrizion),
                  Some(<<"%", "B", "A", "N", "C", "A", "L", "E", "%">>)),
            Like3(Upper3(ma.DESCRIZION),
                  Some(<<"%", "C", "O", "N", "A", "I", "%">>)),
            Like3(Upper3(ma.DESCRIZION),
                  Some(<<"%", "B", "A", "N", "C", "A", "L", "E", "%">>))>>)

\* Variant of HasItemCode: the item code is not tested.
HasItemCodeAlways(r) == "T"

\* r.codicearti IS NOT NULL AND r.codicearti <> ''
HasItemCode(r) ==
    AndAll(<<Not3(IsNull3(r.codicearti)),
             Not3(Eq3(r.codicearti, Some(<< >>)))>>)

\* the WHERE clause of search_articoli_per_cliente_sql, lines 232-274, on
\* the joined row of header d and line r
SearchArticoliPerClienteWhere(d, r, p) ==
    AndAll(<<In3(d.tipodoc, TIPI_DOC_LAVORO),
             OrAll(<<IsNull3(p[1]), Eq3(d.tipodoc, p[2])>>),
             OrAll(<<IsNull3(p[3]), Eq3(d.esanno, p[4])>>),
             OrAll(<<IsNull3(p[5]), Eq3(d.codicecf, p[6])>>),
             OrAll(<<IsNull3(p[7]),
                     LikeParam(JoinAnagrafe(d).DESCRIZION, p[8]),
                     LikeParam(JoinAnagrafe(d).SUPRAGSOC, p[9])>>),
             OrAll(<<IsNull3(p[10]),
                     LikeParam(r.codicearti, p[11]),
                     LikeParam(r.descrizion, p[12]),
                     LikeParam(JoinMagart(r).DESCRIZION, p[13]),
                     LikeParam(JoinUscimp(r).passo, p[14]),
                     LikeParam(JoinUscimp(r).fascia, p[15])>>),
             Not3(SentinelMatch(r, JoinMagart(r))),
             HasItemCode(r)>>)

\* ORDER BY d.datadoc DESC, d.numerodoc DESC, r.numeroriga ASC on joined
\* rows <<d, r>>
DocLineBefore(x, y) ==
    \/ DocBefore(x[1], y[1])
    \/ /\ ~DocBefore(y[1], x[1])
       /\ The(x[2].numeroriga) < The(y[2].numeroriga)

\* Variant of JoinedColumns: d_datadoc is taken from the line (its number)
\* instead of the header.
JoinedColumnsLineDate(x) ==
    (<<"d_", "datadoc">> :> x[2].numeroriga)
    @@ HeaderColumns(x[1], JoinAnagrafe(x[1]))
    @@ LineColumns(x[2], JoinMagart(x[2]), JoinUscimp(x[2]))

\* the columns of a joined row
JoinedColumns(x) ==
    HeaderColumns(x[1], JoinAnagrafe(x[1]))
    @@ LineColumns(x[2], JoinMagart(x[2]), JoinUscimp(x[2]))

\* search_articoli_per_cliente_sql: the row sequences the database may
\* return for the bound parameters p
SearchArticoliPerClienteSql(p) ==
    LET S == {x \in doctes \X docrig :
                 /\ LineOf(x[2], x[1])
                 /\ SearchArticoliPerClienteWhere(x[1], x[2], p) = "T"} IN
    {LET page == LimitOffset(o, The(p[16]), The(p[17])) IN
       IF Len(page) = 0 THEN << >>
       ELSE [i \in 1..Len(page) |-> JoinedColumns(page[i])]
     : o \in {q \in Perms(S) :
                \A i \in 1..Len(q) : \A j \in (i + 1)..Len(q) :
                   ~DocLineBefore(q[j], q[i])}}

\* The filter each %s of search_clienti_options_sql belongs to.
SearchClientiOptionsSlots == <<"q", "q", "q", "q", "limit", "offset">>

\* the WHERE clause of search_clienti_options_sql, lines 301-307
SearchClientiOptionsWhere(a, p) ==
    AndAll(<<Not3(IsNull3(a.CODICE)),
             Not3(Eq3(a.CODICE, Some(<< >>))),
             OrAll(<<IsNull3(p[1]),
                     LikeParam(a.DESCRIZION, p[2]),
                     LikeParam(a.SUPRAGSOC, p[3]),
                     LikeParam(a.CODICE, p[4])>>)>>)

\* x sorts before y in ascending order; NULL sorts first
StrValLess(x, y) ==
    IF IsNull(y) THEN FALSE
    ELSE IF IsNull(x) THEN TRUE
    ELSE StrLess(The(x), The(y))

\* ORDER BY cliente_nome ASC, a.CODICE ASC
AnagrafeBefore(x, y) ==
    \/ StrValLess(Coalesce(x.SUPRAGSOC, x.DESCRIZION),
                  Coalesce(y.SUPRAGSOC, y.DESCRIZION))
    \/ /\ ~StrValLess(Coalesce(y.SUPRAGSOC, y.DESCRIZION),
                      Coalesce(x.SUPRAGSOC, x.DESCRIZION))
       /\ StrValLess(x.CODICE, y.CODICE)

\* the columns search_clienti_options_sql selects
OptionColumns(a) ==
    (<<"", "codicecf">> :> a.CODICE)
    @@ (<<"", "cliente_nome">> :> Coalesce(a.SUPRAGSOC, a.DESCRIZION))

\* search_clienti_options_sql: the row sequences the database may return
SearchClientiOptionsSql(p) ==
    LET S == {a \in anagrafe : SearchClientiOptionsWhere(a, p) = "T"} IN
    {LET page == LimitOffset(o, The(p[5]), The(p[6])) IN
       IF Len(page) = 0 THEN << >>
       ELSE [i \in 1..Len(page) |-> OptionColumns(page[i])]
     : o \in {q \in Perms(S) :
                \A i \in 1..Len(q) : \A j \in (i + 1)..Len(q) :
                   ~AnagrafeBefore(q[j], q[i])}}

\* The key part each %s of get_scheda_lavoro_sql belongs to.
GetSchedaLavoroSlots == <<"tipodoc", "esanno", "numerodoc">>

\* the WHERE clause of get_scheda_lavoro_sql, lines 402-406
GetSchedaLavoroWhere(d, r, p) ==
    AndAll(<<Eq3(d.tipodoc, p[1]), Eq3(d.esanno, p[2]),
             Eq3(d.numerodoc, p[3]), HasItemCode(r)>>)

\* ORDER BY r.numeroriga ASC on joined rows <<d, r>>
LineBefore(x, y) == The(x[2].numeroriga) < The(y[2].numeroriga)

\* get_scheda_lavoro_sql: the row sequences the database may return
GetSchedaLavoroSql(p) ==
    LET S == {x \in doctes \X docrig :
                 /\ LineOf(x[2], x[1])
                 /\ GetSchedaLavoroWhere(x[1], x[2], p) = "T"} IN
    {IF Len(o) = 0 THEN << >>
     ELSE [i \in 1..Len(o) |-> JoinedColumns(o[i])]
     : o \in {q \in Perms(S) :
                \A i \in 1..Len(q) : \A j \in (i + 1)..Len(q) :
                   ~LineBefore(q[j], q[i])}}

\* ------------------------------------------------------- repository
\* search_schede_lavoro, lines 62-67 and 122-123: the normalized values
SearchSchedeLavoroVals(raw) ==
    [tipodoc |-> OrNone(Upper(Strip(OrEmpty(raw.tipodoc)))),
     numerodoc |-> OrNone(Strip(OrEmpty(raw.numerodoc))),
     year |-> raw.year,
     codicecf |-> OrNone(Strip(OrEmpty(raw.codicecf))),
     fornitore |-> OrNone(Strip(OrEmpty(raw.fornitore_search))),
     articolo |-> OrNone(Strip(OrEmpty(raw.articolo_search))),
     limit |-> raw.limit,
     offset |-> raw.offset]

\* Variant of SearchSchedeLavoroParams: offset bound before limit.
SearchSchedeLavoroParamsOffsetFirst(v) ==
    <<v.tipodoc, v.tipodoc, v.numerodoc, v.numerodoc, v.year, v.year,
      v.codicecf, v.codicecf, v.fornitore, v.fornitore, v.fornitore,
      v.articolo, v.articolo, v.articolo, v.articolo, v.articolo, v.articolo,
      v.offset, v.limit>>

\* search_schede_lavoro, lines 91-124: the params list
SearchSchedeLavoroParams(v) ==
    <<v.tipodoc, v.tipodoc, v.numerodoc, v.numerodoc, v.year, v.year,
      v.codicecf, v.codicecf, v.fornitore, v.fornitore, v.fornitore,
      v.articolo, v.articolo, v.articolo, v.articolo, v.articolo, v.articolo,
      v.limit, v.offset>>

\* search_articoli_per_cliente, lines 158-162 and 197-198
SearchArticoliPerClienteVals(raw) ==
    [tipodoc |-> OrNone(Upper(Strip(OrEmpty(raw.tipodoc)))),
     year |-> raw.year,
     codicecf |-> OrNone(Strip(OrEmpty(raw.codicecf))),
     cliente |-> OrNone(Strip(OrEmpty(raw.cliente_search))),
     articolo |-> OrNone(Strip(OrEmpty(raw.articolo_search))),
     limit |-> raw.limit,
     offset |-> raw.offset]

\* search_articoli_per_cliente, lines 181-199: the params list
SearchArticoliPerClienteParams(v) ==
    <<v.tipodoc, v.tipodoc, v.year, v.year, v.codicecf, v.codicecf,
      v.cliente, v.cliente, v.cliente,
      v.articolo, v.articolo, v.articolo, v.articolo, v.articolo, v.articolo,
      v.limit, v.offset>>

\* Variant of SearchClientiOptionsVals: the text is bound as given, without
\* strip() and without `or None`.
SearchClientiOptionsValsRaw(raw) ==
    [q |-> raw.cliente_search, limit |-> raw.limit, offset |-> raw.offset]

\* search_clienti_options, lines 217-218
SearchClientiOptionsVals(raw) ==
    [q |-> OrNone(Strip(OrEmpty(raw.cliente_search))),
     limit |-> raw.limit,
     offset |-> raw.offset]

\* search_clienti_options, line 218: the params list
SearchClientiOptionsParams(v) == <<v.q, v.q, v.q, v.q, v.limit, v.offset>>

\* get_scheda_lavoro, lines 244-247: `not tipodoc`, `not numerodoc`
Falsy(x) == IsNull(x) \/ Len(The(x)) = 0

\* Variant of DetailKeyInvalid: only the document type is validated.
DetailKeyInvalidTypeOnly(raw) == Falsy(raw.tipodoc)

DetailKeyInvalid(raw) == Falsy(raw.tipodoc) \/ Falsy(raw.numerodoc)

\* get_scheda_lavoro, line 250: the key is bound as the caller gave it
GetSchedaLavoroVals(raw) ==
    [tipodoc |-> raw.tipodoc, esanno |-> raw.esanno,
     numerodoc |-> raw.numerodoc]

\* get_scheda_lavoro, line 250: the params list
GetSchedaLavoroParams(v) == <<v.tipodoc, v.esanno, v.numerodoc>>

\* ---------------------------------------------------------- service
\* dict.get(name)
Get(m, n) == IF n \in DOMAIN m THEN m[n] ELSE Null

\* _extract_header: the d_ fields, without the prefix
ExtractHeader(row) ==
    LET N == {k[2] : k \in {kk \in DOMAIN row : kk[1] = "d_"}} IN
    [n \in N |-> row[<<"d_", n>>]]

\* Variant of ExtractRow: the fields without any prefix are taken too.
ExtractRowUnprefixedToo(row) ==
    LET K == {kk \in DOMAIN row : kk[1] \in {"r_", ""}} IN
    [n \in {k[2] : k \in K} |-> row[CHOOSE k \in K : k[2] = n]]

\* _extract_row: the r_ fields, without the prefix
ExtractRow(row) ==
    LET N == {k[2] : k \in {kk \in DOMAIN row : kk[1] = "r_"}} IN
    [n \in N |-> row[<<"r_", n>>]]

\* Variant of KeepType: no safety filter, every row is kept.
KeepAnyType(row) == TRUE

\* the safety filter of the list operations, lines 71-73 and 109-111:
\* the row is kept
KeepType(row) ==
    LET tip == Upper(OrEmpty(Get(ExtractHeader(row), "tipodoc"))) IN
    ~(Len(tip) > 0 /\ tip \notin DEFAULT_TIPI_DOC)

\* QualityService.search_schede_lavoro, lines 66-76
ServiceSearchSchedeLavoro(rows) ==
    LET kept == SelectSeq(rows, KeepType) IN
    IF Len(kept) = 0 THEN << >>
    ELSE [i \in 1..Len(kept) |-> ExtractHeader(kept[i])]

\* QualityService.search_articoli_per_cliente, lines 114-131: the item
MergedItem(row) ==
    LET h == ExtractHeader(row)
        r == ExtractRow(row) IN
    [tipodoc |-> Get(h, "tipodoc"), esanno |-> Get(h, "esanno"),
     numerodoc |-> Get(h, "numerodoc"), datadoc |-> Get(h, "datadoc"),
     codicecf |-> Get(h, "codicecf"),
     cliente_nome |-> Get(h, "cliente_nome"),
     numeroriga |-> Get(r, "numeroriga"),
     codicearti |-> Get(r, "codicearti"),
     descrizione_articolo |-> Get(r, "descrizione_articolo"),
     descrizione_riga |-> Get(r, "descrizione_riga"),
     pass |-> Get(r, "pass"), fascia |-> Get(r, "fascia")]

\* QualityService.search_articoli_per_cliente, lines 106-134
ServiceSearchArticoliPerCliente(rows) ==
    LET kept == SelectSeq(rows, KeepType) IN
    IF Len(kept) = 0 THEN << >>
    ELSE [i \in 1..Len(kept) |-> MergedItem(kept[i])]

\* QualityService.search_clienti_options, lines 151-157
ServiceSearchClientiOptions(rows) ==
    IF Len(rows) = 0 THEN << >>
    ELSE [i \in 1..Len(rows) |->
             [codicecf |-> Get(rows[i], <<"", "codicecf">>),
              cliente_nome |-> Get(rows[i], <<"", "cliente_nome">>)]]

\* Variant of ServiceGetSchedaLavoro: without lines 223-224; the header
\* is taken from the rows whatever their number.
ServiceGetSchedaLavoroNoEmptyCase(rows) ==
    [header |-> Some(IF Len(rows) = 0 THEN << >> ELSE ExtractHeader(rows[1])),
     righe |-> IF Len(rows) = 0 THEN << >>
               ELSE [i \in 1..Len(rows) |-> ExtractRow(rows[i])]]

\* QualityService.get_scheda_lavoro, lines 223-232
ServiceGetSchedaLavoro(rows) ==
    IF Len(rows) = 0
    THEN [header |-> Null, righe |-> << >>]
    ELSE [header |-> Some(ExtractHeader(rows[1])),
          righe |-> [i \in 1..Len(rows) |-> ExtractRow(rows[i])]]

\* ------------------------------------------------- the callers' inputs
TipodocInputs ==
    {Null, Some(<<" ">>), Some(<<" ", "o", "c", " ">>), Some(<<"B", "A">>)}
NumerodocInputs ==
    {Null, Some(<< >>), Some(<<"A", "-", "1">>), Some(<<"A", "_", "1">>)}
YearInputs == {Null, Some(2024)}
CodicecfInputs == {Null, Some(<<" ">>), Some(<<" ", "K", "1">>)}
NameInputs == {Null, Some(<< >>), Some(<<"B">>)}
ArticoloInputs == {Null, Some(<<" ", " ">>), Some(<<"A">>)}
Limits == {Some(1), Some(2)}
Offsets == {Some(0), Some(1)}

\* the optional filters of a Filter Set that the caller supplied
Supplied(f) ==
    {k \in DOMAIN f \ {"limit", "offset"} : ~IsNull(f[k])}

HeaderFilterSets ==
    {f \in [tipodoc : TipodocInputs, numerodoc : NumerodocInputs,
            year : YearInputs, codicecf : CodicecfInputs,
            fornitore_search : NameInputs, articolo_search : ArticoloInputs,
            limit : Limits, offset : Offsets] :
        Cardinality(Supplied(f)) <= MaxSupplied}

LineFilterSets ==
    {f \in [tipodoc : TipodocInputs, year : YearInputs,
            codicecf : CodicecfInputs, cliente_search : NameInputs,
            articolo_search : ArticoloInputs,
            limit : Limits, offset : Offsets] :
        Cardinality(Supplied(f)) <= MaxSupplied}

OptionFilterSets ==
    [cliente_search : NameInputs \cup {Some(<<" ", "K", "1">>)},
     limit : Limits, offset : Offsets]

DetailKeys ==
    [tipodoc : {Null, Some(<< >>), Some(<<"O", "C">>),
                Some(<<" ", "o", "c", " ">>)},
     esanno : {Some(2023), Some(2024)},
     numerodoc : {Null, Some(<< >>), Some(<<"A", "-", "1">>),
                  Some(<<"B", "2">>)}]

\* ------------------------------------------------- service operations
\* the %s slots of the template the operation binds
SlotsOf(op) ==
    CASE op = "search_schede_lavoro" -> SearchSchedeLavoroSlots
      [] op = "search_articoli_per_cliente" -> SearchArticoliPerClienteSlots
      [] op = "search_clienti_options" -> SearchClientiOptionsSlots
      [] OTHER -> GetSchedaLavoroSlots

Paginated(op) ==
    op \in {"search_schede_lavoro", "search_articoli_per_cliente",
            "search_clienti_options"}

\* the normalized values the repository method makes of the raw input
ValsOf(op, raw) ==
    CASE op = "search_schede_lavoro" -> SearchSchedeLavoroVals(raw)
      [] op = "search_articoli_per_cliente" ->
            SearchArticoliPerClienteVals(raw)
      [] OTHER -> SearchClientiOptionsVals(raw)

\* the params the repository method binds for the raw input
ParamsOf(op, raw) ==
    CASE op = "search_schede_lavoro" ->
            SearchSchedeLavoroParams(SearchSchedeLavoroVals(raw))
      [] op = "search_articoli_per_cliente" ->
            SearchArticoliPerClienteParams(SearchArticoliPerClienteVals(raw))
      [] OTHER -> SearchClientiOptionsParams(SearchClientiOptionsVals(raw))

\* the row sequences the operation's query may return for params p
SqlOf(op, p) ==
    CASE op = "search_schede_lavoro" -> SearchSchedeLavoroSql(p)
      [] op = "search_articoli_per_cliente" -> SearchArticoliPerClienteSql(p)
      [] OTHER -> SearchClientiOptionsSql(p)

\* what the scoped session of the call meets: the connect fails, the
\* query fails, or both succeed
SessionOutcomes == {"ok", "connect_fails", "query_fails"}

\* what the service operation makes of the rows of its repository method
ServiceResult(op, rows) ==
    CASE op = "search_schede_lavoro" -> ServiceSearchSchedeLavoro(rows)
      [] op = "search_articoli_per_cliente" ->
            ServiceSearchArticoliPerCliente(rows)
      [] op = "search_clienti_options" -> ServiceSearchClientiOptions(rows)
      [] OTHER -> ServiceGetSchedaLavoro(rows)

\* A repository method from its `with` block on, and the service code
\* after it: connect, execute_query, close; the driver rejects a params
\* list whose length is not the number of %s; the service projects the
\* rows.
QualityCall(op, raw, vals, params, slots, results) ==
    \E oc \in SessionOutcomes :
       IF oc = "connect_fails"
       THEN qres' = [op |-> op, raw |-> raw, vals |-> vals,
                     params |-> params, trace |-> <<"connect">>,
                     status |-> "raised", error |-> "ConnectError",
                     rows |-> << >>, result |-> << >>]
       ELSE IF oc = "query_fails" \/ Len(params) # Len(slots)
       THEN qres' = [op |-> op, raw |-> raw, vals |-> vals,
                     params |-> params,
                     trace |-> <<"connect", "query", "close">>,
                     status |-> "raised", error |-> "ExecutionFailure",
                     rows |-> << >>, result |-> << >>]
       ELSE \E rows \in results :
               qres' = [op |-> op, raw |-> raw, vals |-> vals,
                        params |-> params,
                        trace |-> <<"connect", "query", "close">>,
                        status |-> "ok", error |-> "none",
                        rows |-> rows, result |-> ServiceResult(op, rows)]

\* QualityService.search_schede_lavoro
SearchSchedeLavoro ==
    /\ qres.op = "none"
    /\ \E raw \in HeaderFilterSets :
          LET v == SearchSchedeLavoroVals(raw)
              p == SearchSchedeLavoroParams(v) IN
          QualityCall("search_schede_lavoro", raw, v, p,
                      SearchSchedeLavoroSlots, SearchSchedeLavoroSql(p))
    /\ UNCHANGED <<doctes, docrig, qprev>>
    /\ UNCHANGED <<dbvars, failed, nWrites, pc, cur, log, out, calls, sess,
                   rout>>

\* QualityService.search_articoli_per_cliente
SearchArticoliPerCliente ==
    /\ qres.op = "none"
    /\ \E raw \in LineFilterSets :
          LET v == SearchArticoliPerClienteVals(raw)
              p == SearchArticoliPerClienteParams(v) IN
          QualityCall("search_articoli_per_cliente", raw, v, p,
                      SearchArticoliPerClienteSlots,
                      SearchArticoliPerClienteSql(p))
    /\ UNCHANGED <<doctes, docrig, qprev>>
    /\ UNCHANGED <<dbvars, failed, nWrites, pc, cur, log, out, calls, sess,
                   rout>>

\* QualityService.search_clienti_options
SearchClientiOptions ==
    /\ qres.op = "none"
    /\ \E raw \in OptionFilterSets :
          LET v == SearchClientiOptionsVals(raw)
              p == SearchClientiOptionsParams(v) IN
          QualityCall("search_clienti_options", raw, v, p,
                      SearchClientiOptionsSlots, SearchClientiOptionsSql(p))
    /\ UNCHANGED <<doctes, docrig, qprev>>
    /\ UNCHANGED <<dbvars, failed, nWrites, pc, cur, log, out, calls, sess,
                   rout>>

\* QualityService.get_scheda_lavoro: the repository validates the key
\* before it opens the session
GetSchedaLavoro ==
    /\ qres.op = "none"
    /\ \E raw \in DetailKeys :
          IF DetailKeyInvalid(raw)
          THEN qres' = [op |-> "get_scheda_lavoro", raw |-> raw,
                        vals |-> << >>, params |-> << >>, trace |-> << >>,
                        status |-> "raised", error |-> "InvalidArgument",
                        rows |-> << >>, result |-> << >>]
          ELSE LET v == GetSchedaLavoroVals(raw)
                   p == GetSchedaLavoroParams(v) IN
               QualityCall("get_scheda_lavoro", raw, v, p,
                           GetSchedaLavoroSlots, GetSchedaLavoroSql(p))
    /\ UNCHANGED <<doctes, docrig, qprev>>
    /\ UNCHANGED <<dbvars, failed, nWrites, pc, cur, log, out, calls, sess,
                   rout>>

\* The caller repeats the search it has the result of, with the same
\* arguments: the same service operation runs again on the same data.
SearchAgain ==
    /\ Paginated(qres.op)
    /\ qres.status = "ok"
    /\ qprev.op = "none"
    /\ LET raw == qres.raw
           p == ParamsOf(qres.op, raw) IN
       QualityCall(qres.op, raw, ValsOf(qres.op, raw), p, SlotsOf(qres.op),
                   SqlOf(qres.op, p))
    /\ qprev' = qres
    /\ UNCHANGED <<doctes, docrig>>
    /\ UNCHANGED <<dbvars, failed, nWrites, pc, cur, log, out, calls, sess,
                   rout>>

\* The caller asks for the next page of the search it has the result of:
\* the same arguments, the offset advanced by the limit.
SearchNextPage ==
    /\ Paginated(qres.op)
    /\ qres.status = "ok"
    /\ qprev.op = "none"
    /\ LET raw == [qres.raw EXCEPT
                     !.offset = Some(The(@) + The(qres.raw.limit))]
           p == ParamsOf(qres.op, raw) IN
       QualityCall(qres.op, raw, ValsOf(qres.op, raw), p, SlotsOf(qres.op),
                   SqlOf(qres.op, p))
    /\ qprev' = qres
    /\ UNCHANGED <<doctes, docrig>>
    /\ UNCHANGED <<dbvars, failed, nWrites, pc, cur, log, out, calls, sess,
                   rout>>

\* the caller has the result (or the error) of the operation
QualityReturn ==
    /\ qres.op # "none"
    /\ qres' = NoQRes
    /\ qprev' = NoQRes
    /\ UNCHANGED <<doctes, docrig>>
    /\ UNCHANGED <<dbvars, failed, nWrites, pc, cur, log, out, calls, sess,
                   rout>>

NextQuality ==
    \/ \E d \in DocUniverse : StoreDocument(d)
    \/ \E r \in LineUniverse : StoreLine(r)
    \/ SearchSchedeLavoro
    \/ SearchArticoliPerCliente
    \/ SearchClientiOptions
    \/ GetSchedaLavoro
    \/ SearchAgain
    \/ SearchNextPage
    \/ QualityReturn

SpecQuality == Init /\ [][NextQuality]_vars

\* ------------------------------------- the service over any repository
\* QualityService takes its repository as an argument (`repo`): the
\* operations below run the service code on the rows a repository hands
\* back, whatever query produced them.
MaxRows == 2

\* raw rows: dicts from column alias to value
RawRowUniverse ==
    {(<<"d_", "tipodoc">> :> Some(<<"O", "C">>))
        @@ (<<"d_", "numerodoc">> :> Some(<<"A", "-", "1">>))
        @@ (<<"r_", "numeroriga">> :> Some(1))
        @@ (<<"r_", "codicearti">> :> Some(<<"P", "1">>)),
     (<<"d_", "tipodoc">> :> Some(<<"F", "T">>))
        @@ (<<"r_", "numeroriga">> :> Some(1)),
     (<<"d_", "tipodoc">> :> Some(<<"o", "c">>))
        @@ (<<"r_", "numeroriga">> :> Some(2))
        @@ (<<"", "note">> :> Some(<<"A", "B">>)),
     (<<"d_", "tipodoc">> :> Null)
        @@ (<<"r_", "tipodoc">> :> Some(<<"F", "T">>)),
     (<<"d_", "tipodoc">> :> Some(<< >>))
        @@ (<<"D_", "tipodoc">> :> Some(<<"B", "A">>)),
     (<<"r_", "numeroriga">> :> Some(3))
        @@ (<<"", "tipodoc">> :> Some(<<"F", "T">>))}

RawRowSeqs == UNION {[1..n -> RawRowUniverse] : n \in 0..MaxRows}

\* the result of a service operation run on the rows of a repository
FromRows(op, rows) ==
    [NoQRes EXCEPT !.op = op, !.status = "ok", !.rows = rows,
                   !.result = ServiceResult(op, rows)]

\* QualityService.search_schede_lavoro on the rows of a repository
ProjectSearchSchedeLavoro ==
    /\ qres.op = "none"
    /\ \E rows \in RawRowSeqs :
          qres' = FromRows("search_schede_lavoro", rows)
    /\ UNCHANGED <<doctes, docrig, qprev>>
    /\ UNCHANGED <<dbvars, failed, nWrites, pc, cur, log, out, calls, sess,
                   rout>>

\* QualityService.search_articoli_per_cliente on the rows of a repository
ProjectSearchArticoliPerCliente ==
    /\ qres.op = "none"
    /\ \E rows \in RawRowSeqs :
          qres' = FromRows("search_articoli_per_cliente", rows)
    /\ UNCHANGED <<doctes, docrig, qprev>>
    /\ UNCHANGED <<dbvars, failed, nWrites, pc, cur, log, out, calls, sess,
                   rout>>

\* QualityService.get_scheda_lavoro on the rows of a repository
ProjectGetSchedaLavoro ==
    /\ qres.op = "none"
    /\ \E rows \in RawRowSeqs :
          qres' = FromRows("get_scheda_lavoro", rows)
    /\ UNCHANGED <<doctes, docrig, qprev>>
    /\ UNCHANGED <<dbvars, failed, nWrites, pc, cur, log, out, calls, sess,
                   rout>>

NextService ==
    \/ ProjectSearchSchedeLavoro
    \/ ProjectSearchArticoliPerCliente
    \/ ProjectGetSchedaLavoro
    \/ QualityReturn

SpecService == Init /\ [][NextService]_vars

\* ---------------------------------------- properties of the quality module
\* the operation reached its session: it built its params list
Bound(q) == q.op # "none" /\ Len(q.trace) > 0

Recognized == {d \in doctes : The(d.tipodoc) \in TIPI_DOC_LAVORO}

\* the key of a stored document and of an item of a result
DocKey(d) == <<d.tipodoc, d.esanno, d.numerodoc>>
ItemKey(h) == <<h.tipodoc, h.esanno, h.numerodoc>>

\* x comes strictly before y by date descending, then number descending
DateNumberDesc(x, y) ==
    \/ The(x.datadoc) > The(y.datadoc)
    \/ /\ The(x.datadoc) = The(y.datadoc)
       /\ StrLess(The(y.numerodoc), The(x.numerodoc))

Min(a, b) == IF a < b THEN a ELSE b
Max(a, b) == IF a > b THEN a ELSE b

\* res is the page (limit lim, offset off) of the documents M in the
\* order date descending, number descending: its items are documents of M,
\* each at most once, as many as the page holds, in that order, and the
\* items before and after the page are those the order puts there
IsPageOf(res, M, lim, off) ==
    /\ Len(res) = Min(lim, Max(0, Cardinality(M) - off))
    /\ \A i \in 1..Len(res) : \E d \in M : DocKey(d) = ItemKey(res[i])
    /\ \A i \in 1..Len(res) : \A j \in (i + 1)..Len(res) :
          /\ ItemKey(res[i]) # ItemKey(res[j])
          /\ ~DateNumberDesc(res[j], res[i])
    /\ \A i \in 1..Len(res) :
          /\ Cardinality({d \in M : DateNumberDesc(d, res[i])})
                <= off + i - 1
          /\ Cardinality({d \in M : DateNumberDesc(res[i], d)})
                <= Cardinality(M) - (off + i)

ContainsText(x, t) == ~IsNull(x) /\ Contains(The(x), The(t))

\* the document satisfies every supplied filter v, as C15 words them
SatisfiesFilters(d, v) ==
    /\ IsNull(v.tipodoc) \/ d.tipodoc = v.tipodoc
    /\ IsNull(v.numerodoc) \/ ContainsText(d.numerodoc, v.numerodoc)
    /\ IsNull(v.year) \/ d.esanno = v.year
    /\ IsNull(v.codicecf) \/ d.codicecf = v.codicecf
    /\ \/ IsNull(v.fornitore)
       \/ ContainsText(JoinAnagrafe(d).DESCRIZION, v.fornitore)
       \/ ContainsText(JoinAnagrafe(d).SUPRAGSOC, v.fornitore)
    /\ \/ IsNull(v.articolo)
       \/ \E r \in docrig :
             /\ LineOf(r, d)
             /\ \/ ContainsText(r.codicearti, v.articolo)
                \/ ContainsText(r.descrizion, v.articolo)
                \/ ContainsText(JoinMagart(r).DESCRIZION, v.articolo)
                \/ ContainsText(JoinUscimp(r).passo, v.articolo)
                \/ ContainsText(JoinUscimp(r).fascia, v.articolo)

\* C15: header search returns (within limit and offset) exactly the
\* recognized-type documents that satisfy every supplied filter: type
\* equals, number contains the text, year equals, counterparty code equals,
\* a counterparty name field contains the text, a line of the document
\* contains the item text in one of the five columns; an absent filter
\* excludes nothing.
C15_ExactlyTheMatchingDocuments ==
    (qres.op = "search_schede_lavoro" /\ qres.status = "ok") =>
       IsPageOf(qres.result,
                {d \in Recognized : SatisfiesFilters(d, qres.vals)},
                The(qres.raw.limit), The(qres.raw.offset))

\* the raw field of a text filter and the name of its slots
TextFilters(op) ==
    CASE op = "search_schede_lavoro" ->
            {<<"tipodoc", "tipodoc">>, <<"numerodoc", "numerodoc">>,
             <<"codicecf", "codicecf">>, <<"fornitore_search", "fornitore">>,
             <<"articolo_search", "articolo">>}
      [] op = "search_articoli_per_cliente" ->
            {<<"tipodoc", "tipodoc">>, <<"codicecf", "codicecf">>,
             <<"cliente_search", "cliente">>,
             <<"articolo_search", "articolo">>}
      [] OTHER -> {<<"cliente_search", "q">>}

\* absent, empty or whitespace only
Blank(x) == IsNull(x) \/ \A i \in 1..Len(The(x)) : The(x)[i] \in Whitespace

\* the text without the whitespace at its two ends
Trimmed(s) ==
    LET keep == {i \in 1..Len(s) : s[i] \notin Whitespace} IN
    IF keep = {} THEN << >>
    ELSE SubSeq(s, CHOOSE i \in keep : \A j \in keep : i <= j,
                   CHOOSE i \in keep : \A j \in keep : i >= j)

\* C16: in the three search methods a text filter that is absent, empty
\* or whitespace only is bound as NULL in each of its slots, so the params
\* and hence the possible rows are those of the search with the filter
\* absent; a supplied text filter is bound trimmed in each of its slots, and
\* a supplied type code trimmed and upper-cased in both of its slots.
C16_BlankIsAbsentSuppliedIsTrimmed ==
    (Bound(qres) /\ Paginated(qres.op)) =>
       \A f \in TextFilters(qres.op) :
          LET x == qres.raw[f[1]]
              S == {i \in 1..Len(qres.params) : SlotsOf(qres.op)[i] = f[2]}
          IN
          /\ S # {}
          /\ IF Blank(x)
             THEN /\ \A i \in S : IsNull(qres.params[i])
                  /\ qres.params
                       = ParamsOf(qres.op, [qres.raw EXCEPT ![f[1]] = Null])
                  /\ qres.status = "ok" =>
                       qres.rows \in SqlOf(qres.op,
                          ParamsOf(qres.op, [qres.raw EXCEPT ![f[1]] = Null]))
             ELSE \A i \in S :
                     qres.params[i] =
                        IF f[1] = "tipodoc" THEN Some(Upper(Trimmed(The(x))))
                        ELSE Some(Trimmed(The(x)))

\* a line search was given a type code with blanks in lower case and a
\* whitespace-only item text
C16_Witness ==
    /\ qres.op = "search_articoli_per_cliente"
    /\ qres.status = "ok"
    /\ qres.raw.tipodoc = Some(<<" ", "o", "c", " ">>)
    /\ qres.raw.articolo_search = Some(<<" ", " ">>)
    /\ qres.params[1] = Some(<<"O", "C">>)
    /\ qres.params[2] = Some(<<"O", "C">>)
    /\ IsNull(qres.params[10])

\* C17: the detail lookup of the repository binds its key normalized like
\* the other methods: the type code trimmed and upper-cased, the document
\* number trimmed.
C17_DetailKeyNormalized ==
    (qres.op = "get_scheda_lavoro" /\ Bound(qres)) =>
       /\ qres.params[1] = Some(Upper(Trimmed(The(qres.raw.tipodoc))))
       /\ qres.params[3] = Some(Trimmed(The(qres.raw.numerodoc)))

\* C18: a detail lookup whose type or number is absent or empty raises
\* InvalidArgument before any session: no connect, no query; with both
\* present it opens one session, with one connect and - once connected -
\* one query, and never raises InvalidArgument.
C18_InvalidKeyFailsBeforeSession ==
    (qres.op = "get_scheda_lavoro") =>
       IF Falsy(qres.raw.tipodoc) \/ Falsy(qres.raw.numerodoc)
       THEN /\ qres.status = "raised"
            /\ qres.error = "InvalidArgument"
            /\ qres.trace = << >>
       ELSE /\ qres.error # "InvalidArgument"
            /\ Count(qres.trace, "connect") = 1
            /\ Count(qres.trace, "query") <= 1
            /\ qres.error # "ConnectError" => Count(qres.trace, "query") = 1

\* a detail lookup with a type and without a number was refused
C18_Witness ==
    /\ qres.op = "get_scheda_lavoro"
    /\ ~Falsy(qres.raw.tipodoc)
    /\ Falsy(qres.raw.numerodoc)
    /\ qres.error = "InvalidArgument"
    /\ qres.trace = << >>

\* C19: when the repository returns no row for a valid key, the detail
\* operation returns an absent header and an empty line list, not an error.
C19_NoRowsGiveAbsentHeader ==
    (/\ qres.op = "get_scheda_lavoro"
     /\ Count(qres.trace, "query") = 1
     /\ qres.error # "ExecutionFailure"
     /\ Len(qres.rows) = 0) =>
       /\ qres.status = "ok"
       /\ qres.result = [header |-> Null, righe |-> << >>]

\* the detail of a stored document without lines came back empty
C19_Witness ==
    /\ qres.op = "get_scheda_lavoro"
    /\ qres.status = "ok"
    /\ Len(qres.rows) = 0
    /\ \E d \in doctes : DocKey(d) = <<qres.params[1], qres.params[2],
                                       qres.params[3]>>
    /\ IsNull(qres.result.header)

\* C20: the detail of a stored document with N >= 1 lines has one header
\* and N line entries, one per stored line, by ascending line number.
C20_OneEntryPerStoredLine ==
    (qres.op = "get_scheda_lavoro" /\ qres.status = "ok") =>
       \A d \in doctes :
          LET lines == {r \in docrig : LineOf(r, d)} IN
          (/\ DocKey(d) = <<qres.params[1], qres.params[2], qres.params[3]>>
           /\ lines # {}) =>
             /\ ~IsNull(qres.result.header)
             /\ Len(qres.result.righe) = Cardinality(lines)
             /\ \A r \in lines : \E i \in 1..Len(qres.result.righe) :
                   qres.result.righe[i].numeroriga = r.numeroriga
             /\ \A i \in 1..Len(qres.result.righe) :
                   \A j \in (i + 1)..Len(qres.result.righe) :
                      The(qres.result.righe[i].numeroriga)
                         < The(qres.result.righe[j].numeroriga)

\* ------------------------------------- properties of the service code
\* the recognized document types
RecognizedSet ==
    {<<"O", "C">>, <<"O", "N">>, <<"B", "A">>, <<"C", "B">>, <<"B", "C">>,
     <<"B", "O">>}

\* the list operations: header search and line search by counterparty
ListOps == {"search_schede_lavoro", "search_articoli_per_cliente"}

\* the document type column of a raw row
RawType(row) == Get(row, <<"d_", "tipodoc">>)

\* the type is absent, NULL, empty, or recognized once upper-cased
TypeAcceptable(t) ==
    \/ IsNull(t)
    \/ Len(The(t)) = 0
    \/ Upper(The(t)) \in RecognizedSet

\* the item a list operation makes of a raw row
ItemOf(op, row) ==
    IF op = "search_schede_lavoro" THEN ExtractHeader(row)
    ELSE MergedItem(row)

\* C21 as stated: whatever rows the repository hands back, every item of
\* the output of a list operation has a document type in the recognized
\* set.
C21_EveryItemTypeRecognized ==
    (qres.op \in ListOps /\ qres.status = "ok") =>
       \A k \in 1..Len(qres.result) :
          LET t == Get(qres.result[k], "tipodoc") IN
          ~IsNull(t) /\ The(t) \in RecognizedSet

\* C21, amended: whatever rows the repository hands back, the output of a
\* list operation is made of exactly the rows whose document type is
\* absent, NULL, empty, or recognized once upper-cased, in their original
\* order; so every item has such a type.
C21_KeptTypesAndOrder ==
    (qres.op \in ListOps /\ qres.status = "ok") =>
       LET rows == qres.rows
           K == {i \in 1..Len(rows) : TypeAcceptable(RawType(rows[i]))}
           Kth(k) == CHOOSE i \in K : Cardinality({j \in K : j <= i}) = k
       IN /\ Len(qres.result) = Cardinality(K)
          /\ \A k \in 1..Len(qres.result) :
                /\ qres.result[k] = ItemOf(qres.op, rows[Kth(k)])
                /\ TypeAcceptable(Get(qres.result[k], "tipodoc"))

\* an unrecognized row was dropped and a row whose type is recognized
\* only once upper-cased was kept
C21_Witness ==
    /\ qres.op \in ListOps
    /\ qres.status = "ok"
    /\ Len(qres.rows) = 2
    /\ RawType(qres.rows[1]) = Some(<<"F", "T">>)
    /\ Len(qres.result) = 1
    /\ Get(qres.result[1], "tipodoc") = Some(<<"o", "c">>)

\* the fields of the row whose name starts with the prefix
PrefixedFields(row, pre) == {k \in DOMAIN row : k[1] = pre}

\* m holds exactly the fields of the row with the prefix, under their
\* names without the prefix, with their values
IsExtraction(m, row, pre) ==
    /\ DOMAIN m = {k[2] : k \in PrefixedFields(row, pre)}
    /\ \A k \in PrefixedFields(row, pre) : m[k[2]] = row[k]
    /\ Cardinality(DOMAIN m) = Cardinality(PrefixedFields(row, pre))

\* C26: for every raw row, header extraction returns exactly the d_
\* fields without the prefix and with their values, line extraction
\* exactly the r_ fields likewise; no field goes to both results and a
\* field with neither prefix goes to neither.
C26_ExtractionByPrefix ==
    (qres.op = "get_scheda_lavoro" /\ qres.status = "ok"
       /\ Len(qres.rows) > 0) =>
       /\ IsExtraction(The(qres.result.header), qres.rows[1], "d_")
       /\ Len(qres.result.righe) = Len(qres.rows)
       /\ \A i \in 1..Len(qres.rows) :
             IsExtraction(qres.result.righe[i], qres.rows[i], "r_")
       /\ PrefixedFields(qres.rows[1], "d_")
             \cap PrefixedFields(qres.rows[1], "r_") = {}

\* the row has a d_ field, an r_ field and a field with neither prefix
C26_Witness ==
    /\ qres.op = "get_scheda_lavoro"
    /\ qres.status = "ok"
    /\ Len(qres.rows) = 1
    /\ <<"", "note">> \in DOMAIN qres.rows[1]
    /\ DOMAIN The(qres.result.header) = {"tipodoc"}
    /\ DOMAIN qres.result.righe[1] = {"numeroriga"}

\* ------------------------------------------ properties of line search
\* s starts with pre
StartsWith(s, pre) ==
    Len(s) >= Len(pre) /\ SubSeq(s, 1, Len(pre)) = pre

\* the packaging sentinels
Sentinels ==
    {<<"C", "O", "N", "A", "I">>, <<"B", "A", "N", "C", "A", "L", "E">>}

\* the item code starts, whatever the case, with a packaging sentinel
SentinelCode(c) ==
    ~IsNull(c) /\ \E t \in Sentinels : StartsWith(Upper(The(c)), t)

\* C22: whatever the stored data and the filters, no line whose item code
\* starts, case-insensitively, with a packaging sentinel (CONAI, BANCALE)
\* is in the output of line search by counterparty.
C22_NoSentinelLine ==
    (qres.op = "search_articoli_per_cliente" /\ qres.status = "ok") =>
       \A k \in 1..Len(qres.result) :
          ~SentinelCode(qres.result[k].codicearti)

\* a line with item code 'conai' of a BA document is stored, the search
\* asks for type BA from offset 0, and the line is not returned
C22_Witness ==
    /\ qres.op = "search_articoli_per_cliente"
    /\ qres.status = "ok"
    /\ Supplied(qres.raw) = {"tipodoc"}
    /\ qres.vals.tipodoc = Some(<<"B", "A">>)
    /\ The(qres.raw.offset) = 0
    /\ \E r \in docrig :
          /\ SentinelCode(r.codicearti)
          /\ r.tipodoc = qres.vals.tipodoc
    /\ Len(qres.result) = 0

\* the value holds, whatever the case, one of the sentinels
SentinelText(x) ==
    ~IsNull(x) /\ \E t \in Sentinels : Contains(Upper(The(x)), t)

\* the line r of document d satisfies every supplied filter v of line
\* search
LineSatisfiesFilters(d, r, v) ==
    /\ IsNull(v.tipodoc) \/ d.tipodoc = v.tipodoc
    /\ IsNull(v.year) \/ d.esanno = v.year
    /\ IsNull(v.codicecf) \/ d.codicecf = v.codicecf
    /\ \/ IsNull(v.cliente)
       \/ ContainsText(JoinAnagrafe(d).DESCRIZION, v.cliente)
       \/ ContainsText(JoinAnagrafe(d).SUPRAGSOC, v.cliente)
    /\ \/ IsNull(v.articolo)
       \/ ContainsText(r.codicearti, v.articolo)
       \/ ContainsText(r.descrizion, v.articolo)
       \/ ContainsText(JoinMagart(r).DESCRIZION, v.articolo)
       \/ ContainsText(JoinUscimp(r).passo, v.articolo)
       \/ ContainsText(JoinUscimp(r).fascia, v.articolo)

\* the lines C27 says line search returns: of a recognized document,
\* matching the filters, with a non-empty item code, and with no sentinel
\* in the item code, the line description or the item-master description
\* (a NULL description or a missing item-master record holds no sentinel)
ProductLines(v) ==
    {x \in doctes \X docrig :
        /\ LineOf(x[2], x[1])
        /\ x[1] \in Recognized
        /\ LineSatisfiesFilters(x[1], x[2], v)
        /\ ~IsNull(x[2].codicearti)
        /\ Len(The(x[2].codicearti)) > 0
        /\ ~SentinelCode(x[2].codicearti)
        /\ ~SentinelText(x[2].descrizion)
        /\ ~SentinelText(JoinMagart(x[2]).DESCRIZION)}

\* the key of a line of a result
LineItemKey(h) == <<h.tipodoc, h.esanno, h.numerodoc, h.numeroriga>>

\* C27: line search by counterparty returns, within limit and offset,
\* every line of a recognized-type document that matches all supplied
\* filters, has a non-empty item code and matches no sentinel pattern,
\* lines without item-master record and lines with a NULL description
\* included.
C27_EveryProductLineReturned ==
    (qres.op = "search_articoli_per_cliente" /\ qres.status = "ok") =>
       LET M == ProductLines(qres.vals) IN
       /\ Len(qres.result)
             = Min(The(qres.raw.limit),
                   Max(0, Cardinality(M) - The(qres.raw.offset)))
       /\ \A i \in 1..Len(qres.result) :
             /\ \E x \in M :
                   <<x[1].tipodoc, x[1].esanno, x[1].numerodoc,
                     x[2].numeroriga>> = LineItemKey(qres.result[i])
             /\ \A j \in (i + 1)..Len(qres.result) :
                   LineItemKey(qres.result[i]) # LineItemKey(qres.result[j])

\* ---------------------------------------- properties of detail lookup
\* the stored lines of the keyed document that have an item code
KeyedLinesWithItemCode(p) ==
    {r \in docrig :
        /\ \E d \in doctes : DocKey(d) = <<p[1], p[2], p[3]>> /\ LineOf(r, d)
        /\ ~IsNull(r.codicearti)
        /\ Len(The(r.codicearti)) > 0}

\* C28: detail lookup returns a header exactly when the keyed document
\* has a line with a non-NULL, non-empty item code; a stored document
\* without such a line gives what a key matching no document gives
\* (no header, no line), and no line of the list has an empty item code.
C28_HeaderIffLineWithItemCode ==
    (qres.op = "get_scheda_lavoro" /\ qres.status = "ok") =>
       LET good == KeyedLinesWithItemCode(qres.params) IN
       /\ ~IsNull(qres.result.header) <=> good # {}
       /\ good = {} => qres.result = [header |-> Null, righe |-> << >>]
       /\ Len(qres.result.righe) = Cardinality(good)
       /\ \A i \in 1..Len(qres.result.righe) :
             LET c == Get(qres.result.righe[i], "codicearti") IN
             ~IsNull(c) /\ Len(The(c)) > 0

\* the keyed document is stored with a line, none of its lines has an
\* item code, and the lookup returned no header
C28_Witness ==
    /\ qres.op = "get_scheda_lavoro"
    /\ qres.status = "ok"
    /\ \E d \in doctes :
          /\ DocKey(d) = <<qres.params[1], qres.params[2], qres.params[3]>>
          /\ \E r \in docrig : LineOf(r, d)
    /\ KeyedLinesWithItemCode(qres.params) = {}
    /\ qres.result = [header |-> Null, righe |-> << >>]

\* C25: all the rows the detail query returns for a stored key carry the
\* same d_ fields, so the header of the first row is the header of any
\* other row.
C25_SameHeaderOnEveryRow ==
    (qres.op = "get_scheda_lavoro" /\ qres.status = "ok"
       /\ Len(qres.rows) > 0) =>
       \A i \in 1..Len(qres.rows) :
          /\ PrefixedFields(qres.rows[i], "d_")
                = PrefixedFields(qres.rows[1], "d_")
          /\ \A k \in PrefixedFields(qres.rows[i], "d_") :
                qres.rows[i][k] = qres.rows[1][k]
          /\ ExtractHeader(qres.rows[i]) = The(qres.result.header)

\* the detail query returned two rows
C25_Witness ==
    /\ qres.op = "get_scheda_lavoro"
    /\ qres.status = "ok"
    /\ Len(qres.rows) = 2
    /\ qres.rows[1] # qres.rows[2]

\* ---------------------------------------- properties of header search
\* the line holds the item text in one of the five columns
LineHoldsText(r, t) ==
    \/ ContainsText(r.codicearti, t)
    \/ ContainsText(r.descrizion, t)
    \/ ContainsText(JoinMagart(r).DESCRIZION, t)
    \/ ContainsText(JoinUscimp(r).passo, t)
    \/ ContainsText(JoinUscimp(r).fascia, t)

\* C29: header search returns each stored document at most once, however
\* many of its lines match the item text, supplied or not.
C29_EachDocumentOnce ==
    (qres.op = "search_schede_lavoro" /\ qres.status = "ok") =>
       \A i \in 1..Len(qres.result) : \A j \in (i + 1)..Len(qres.result) :
          ItemKey(qres.result[i]) # ItemKey(qres.result[j])

\* the item text is supplied, two lines of a stored document hold it, and
\* the document is in the result (once)
C29_Witness ==
    /\ qres.op = "search_schede_lavoro"
    /\ qres.status = "ok"
    /\ ~IsNull(qres.vals.articolo)
    /\ The(qres.raw.limit) = 2
    /\ Len(qres.result) = 1
    /\ \E d \in doctes :
          /\ DocKey(d) = ItemKey(qres.result[1])
          /\ Cardinality({r \in docrig :
                             /\ LineOf(r, d)
                             /\ LineHoldsText(r, qres.vals.articolo)}) = 2

\* C30: the type set of the service's filter is the type set the search
\* templates restrict to, so the filter drops no row a search query
\* returned: a list operation returns as many items as its query returned
\* rows.
C30_FilterDropsNothing ==
    /\ DEFAULT_TIPI_DOC = TIPI_DOC_LAVORO
    /\ (qres.op \in ListOps /\ qres.status = "ok"
          /\ Len(qres.trace) > 0) =>
          /\ Len(qres.result) = Len(qres.rows)
          /\ \A i \in 1..Len(qres.rows) :
                qres.result[i] = ItemOf(qres.op, qres.rows[i])

\* a search returned two rows, one of type BA, and the two items
C30_Witness ==
    /\ qres.op \in ListOps
    /\ qres.status = "ok"
    /\ Len(qres.trace) > 0
    /\ Len(qres.rows) = 2
    /\ Len(qres.result) = 2
    /\ \E i \in 1..2 : RawType(qres.rows[i]) = Some(<<"B", "A">>)

\* --------------------------------------- properties of repeated searches
\* the caller has the results of two successful searches in a row, on the
\* same stored data
TwoSearches ==
    qprev.op # "none" /\ qprev.status = "ok" /\ qres.status = "ok"

\* C23: a search with limit L and offset O followed, on the same filters
\* and data, by the search with limit L and offset O + L gives two pages
\* that share no row and whose concatenation is, in order, the page with
\* limit 2L and offset O - documents with the same date and number
\* included.
C23_PagesPartition ==
    (TwoSearches /\ qres.raw # qprev.raw) =>
       LET both == [qprev.raw EXCEPT !.limit = Some(2 * The(@))] IN
       /\ \A i \in 1..Len(qprev.result) : \A j \in 1..Len(qres.result) :
             qprev.result[i] # qres.result[j]
       /\ qprev.result \o qres.result
             \in {ServiceResult(qres.op, rows) :
                    rows \in SqlOf(qres.op, ParamsOf(qres.op, both))}

\* C24: the same search run twice with no write in between returns the
\* same rows in the same order - documents with the same date and number
\* included.
C24_SameSearchSameRows ==
    (TwoSearches /\ qres.raw = qprev.raw) => qres.result = qprev.result

================================================================
